---- MODULE Spec2Model ----
(***************************************************************************)
(* TrussPhoto colour-profile generator (scripts/color/generate_profiles.py) *)
(*                                                                         *)
(* Several state machines share this module:                               *)
(*   Spec      build_lut: stride subsampling, the sigma-clipping loop with  *)
(*             its survivor floor, the final fit and the rasterization.     *)
(*   SpecPoly  the pure helpers rgb_to_lrg / rgb_to_lrg_single and          *)
(*             expand_poly / expand_poly_single applied to drawn inputs.    *)
(*   SpecRaster  the rasterization loop of build_lut, one grid node a step, *)
(*             with a concrete coefficient matrix.                          *)
(*   SpecCube  the four write_cube functions, one data line a step.         *)
(*   SpecCoverage  analyze_coverage on samples of up to three colours.      *)
(*   SpecMain  main's loop over the (model, style) groups.                  *)
(*   SpecStride  the stride subsampling of build_lut at sample counts near  *)
(*             the multiples of the 1,000,000 budget.                       *)
(*   SpecLoad  load_pair_pixels over the pairs of one group, the stacking   *)
(*             and the group subsampling in main.                           *)
(*   SpecDir   process_directory of the three generate_lut scripts.         *)
(*   SpecSmooth  build_3d_lut and smooth_lut of scripts/generate_lut.py.    *)
(*   SpecIdentity  build_lut on samples whose target equals their source.   *)
(*                                                                         *)
(* Arithmetic is exact: reals are rationals <<num, den>> in lowest terms,   *)
(* and a comparison against k*sigma is made on squares.  The least-squares  *)
(* solve itself is not computed: a fit is recorded by the rows it was made  *)
(* on and its number of coefficient rows, and the residuals it leaves are   *)
(* drawn from a bounded family of residual profiles.                        *)
(***************************************************************************)
EXTENDS Integers, Sequences, FiniteSets

\* ------------------------------------------------------------------ bounds
MaxExtra == 4        \* largest sample count is MIN_FLOOR + MaxExtra
MaxOutliers == 2     \* a residual profile marks up to this many "high" samples
MaxRounds == 2       \* clip_rounds is drawn from 0..MaxRounds
MaxProbe == 2        \* (L, r, g) probe values for the expanders: 0..MaxProbe
MaxScale == 2        \* RGB inputs of the transform are a/MaxScale, a in 0..MaxScale

\* ------------------------------------------------------- program constants
MIN_FLOOR == 100             \* max(100, ...) in build_lut
SUBSAMPLE_BUDGET == 1000000  \* n // 1000000 in build_lut
EPS_DEN == 1000000           \* EPS = 1e-6 = 1/EPS_DEN
use_order == 4               \* use_order = 4 in build_lut

VARIABLES
    \* build_lut
    pc,            \* position in build_lut
    args,          \* the call's arguments
    n_initial,     \* len(src_sub)
    min_survivors, \* max(100, int(n_initial * min_survivor_pct / 100))
    mask,          \* the inlier mask, as the set of indices that are True
    clip_round,    \* clip_iter + 1 of the round last begun (0 before the loop)
    residuals,     \* residual of the round's model per sample (the code reads the inliers')
    indices,       \* np.where(mask)[0] as the round began (n_before is its size)
    M,             \* the coefficient matrix last fitted
    n_fits,        \* number of lstsq calls made so far
    floor_hit,     \* the loop was left by the floor branch's break
    lut,           \* the rasterized LUT
    out,           \* what build_lut has printed, in order
    \* pure helpers
    p_pc, p_in, p_lrg_b, p_lrg_s, p_feat_b, p_feat_s,
    \* rasterization loop of build_lut, node by node
    r_pc,          \* position in lines 350-361
    r_in,          \* lut_size and the final coefficient matrix M
    r_node,        \* the loop indices <<ri, gi, bi>>
    r_lut,         \* the array lut, a function of the node index
    r_writes,      \* how many times each cell has been assigned
    \* write_cube, line by line
    c_pc,          \* position in write_cube
    c_in,          \* which write_cube, the array lut and the title
    c_node,        \* the loop indices, outermost first
    c_file,        \* the lines written to the file so far
    \* analyze_coverage
    h_pc,          \* position in analyze_coverage
    h_in,          \* the drawn description of src_pixels
    h_idx,         \* <<h_idx[i], s_idx[i], v_idx[i]>> per pixel of the sample
    h_hist,        \* the array hist once filled
    h_out,         \* the returned list of suggestions
    \* main, the loop over the (model, style) groups
    m_pc,          \* position in main
    m_in,          \* the arguments, the scanned groups and the environment
    m_gi,          \* index of the group being processed, in sorted order
    m_src,         \* all_src of the group being processed
    m_lut,         \* the LUT build_lut returned for the group
    m_cubes,       \* the .cube file of each group: whether it exists, what it holds
    m_results,     \* the list results
    m_out,         \* what main has printed, in order
    m_exc,         \* the exception that left main, if any
    \* the subsampling of build_lut at production sizes
    s_pc,          \* position in the subsampling
    s_in,          \* n, the rows of src_all and of tgt_all
    s_step,        \* step
    s_src,         \* src_sub, as the slice it is: its step and its length
    s_tgt,         \* tgt_sub, likewise
    \* the pixel loading of one group, from the files to the fitting arrays
    l_pc,          \* position in the loading
    l_in,          \* the (RAW, JPG) pairs of the group
    l_k,           \* how many pairs the loop has handled
    l_flat,        \* src_flat and tgt_flat of the last load_pair_pixels call
    l_pair,        \* what the last load_pair_pixels call returned
    l_all_src,     \* all_src
    l_all_tgt,     \* all_tgt
    l_combined,    \* src_combined and tgt_combined
    l_sub,         \* src_sub and tgt_sub
    \* process_directory of the three generate_lut scripts
    d_pc,          \* position in process_directory
    d_in,          \* the script, the embedded flag and the directory
    d_raw_files,   \* raw_files
    d_k,           \* how many files of raw_files the loop has handled
    d_cubes,       \* the names of the .cube files in output_dir
    d_passed,      \* the files passed to process_pair, in order
    d_out,         \* what process_directory has printed, in order
    d_exc,         \* the exception that left process_directory, if any
    \* build_3d_lut and smooth_lut of scripts/generate_lut.py
    q_pc,          \* position in build_3d_lut and smooth_lut
    q_in,          \* lut_size and the pixel pairs
    q_count,       \* lut_count
    q_sum,         \* lut_sum
    q_result,      \* the array the name result refers to
    q_smoothed,    \* the array the name smoothed refers to
    q_alias,       \* whether result and smoothed name the same array
    q_prev,        \* the array result named when the iteration began
    q_iter,        \* the iteration of smooth_lut, from 1
    q_cell,        \* the cell the loops visit next
    q_out,         \* the array smooth_lut returns, before the float32 cast of line 151
    q_exc,         \* the exception that left build_3d_lut, if any
    \* build_lut on samples whose target equals their source
    i_pc,          \* position in build_lut
    i_in,          \* lut_size and the kind of sample set
    i_M,           \* M of the final fit
    i_node,        \* the node the rasterization visits next
    i_lut,         \* lut
    i_exc          \* the exception that left build_lut, if any

bvars == <<pc, args, n_initial, min_survivors, mask, clip_round, residuals,
           indices, M, n_fits, floor_hit, lut, out>>
pvars == <<p_pc, p_in, p_lrg_b, p_lrg_s, p_feat_b, p_feat_s>>
rvars == <<r_pc, r_in, r_node, r_lut, r_writes>>
cvars == <<c_pc, c_in, c_node, c_file>>
hvars == <<h_pc, h_in, h_idx, h_hist, h_out>>
mvars == <<m_pc, m_in, m_gi, m_src, m_lut, m_cubes, m_results, m_out, m_exc>>
svars == <<s_pc, s_in, s_step, s_src, s_tgt>>
lvars == <<l_pc, l_in, l_k, l_flat, l_pair, l_all_src, l_all_tgt, l_combined, l_sub>>
dvars == <<d_pc, d_in, d_raw_files, d_k, d_cubes, d_passed, d_out, d_exc>>
qvars == <<q_pc, q_in, q_count, q_sum, q_result, q_smoothed, q_alias, q_prev, q_iter, q_cell, q_out, q_exc>>
ivars == <<i_pc, i_in, i_M, i_node, i_lut, i_exc>>
vars == <<bvars, pvars, rvars, cvars, hvars, mvars, svars, lvars, dvars, qvars, ivars>>
\* what the steps of one machine leave alone
frame_build == <<pvars, rvars, cvars, hvars, mvars, svars, lvars, dvars, qvars, ivars>>
frame_poly == <<bvars, rvars, cvars, hvars, mvars, svars, lvars, dvars, qvars, ivars>>
frame_raster == <<bvars, pvars, cvars, hvars, mvars, svars, lvars, dvars, qvars, ivars>>
frame_coverage == <<bvars, pvars, rvars, cvars, mvars, svars, lvars, dvars, qvars, ivars>>
frame_cube == <<bvars, pvars, rvars, hvars, mvars, svars, lvars, dvars, qvars, ivars>>
frame_stride == <<bvars, pvars, rvars, cvars, hvars, mvars, lvars, dvars, qvars, ivars>>
frame_main == <<bvars, pvars, rvars, cvars, hvars, svars, lvars, dvars, qvars, ivars>>
frame_dir == <<bvars, pvars, rvars, cvars, hvars, mvars, svars, lvars, qvars, ivars>>
frame_load == <<bvars, pvars, rvars, cvars, hvars, mvars, svars, dvars, qvars, ivars>>
frame_identity == <<bvars, pvars, rvars, cvars, hvars, mvars, svars, lvars, dvars, qvars>>
frame_smooth == <<bvars, pvars, rvars, cvars, hvars, mvars, svars, lvars, dvars, ivars>>

\* ------------------------------------------------------------- arithmetic
Max(a, b) == IF a >= b THEN a ELSE b
Min(a, b) == IF a <= b THEN a ELSE b
Abs(a) == IF a < 0 THEN -a ELSE a

RECURSIVE GCD(_, _)
GCD(a, b) == IF b = 0 THEN a ELSE GCD(b, a % b)

\* A rational in lowest terms with a positive denominator.
Rat(num, den) ==
    LET s == IF den < 0 THEN -1 ELSE 1
        d == GCD(Abs(num), Abs(den))
    IN  <<(s * num) \div d, (s * den) \div d>>
RAdd(x, y) == Rat(x[1] * y[2] + y[1] * x[2], x[2] * y[2])
RDiv(x, y) == Rat(x[1] * y[2], x[2] * y[1])
\* the same sum as RAdd, over the least common denominator
RSum(x, y) ==
    LET g == GCD(x[2], y[2])
    IN  Rat(x[1] * (y[2] \div g) + y[1] * (x[2] \div g), (x[2] \div g) * y[2])

EPS == Rat(1, EPS_DEN)

\* ------------------------------------------------- chromaticity transform
\* rgb is a matrix: a sequence of rows <<R, G, B>> of rationals.
rgb_to_lrg(rgb) ==
    LET R == [i \in 1..Len(rgb) |-> rgb[i][1]]
        G == [i \in 1..Len(rgb) |-> rgb[i][2]]
        B == [i \in 1..Len(rgb) |-> rgb[i][3]]
        S == [i \in 1..Len(rgb) |-> RAdd(RAdd(RAdd(R[i], G[i]), B[i]), EPS)]
        L == [i \in 1..Len(rgb) |-> RDiv(S[i], Rat(3, 1))]
        r == [i \in 1..Len(rgb) |-> RDiv(R[i], S[i])]
        g == [i \in 1..Len(rgb) |-> RDiv(G[i], S[i])]
    IN  [i \in 1..Len(rgb) |-> <<L[i], r[i], g[i]>>]

\* mutant of rgb_to_lrg_single: L = (R+G+B)/3, epsilon only in the denominators
rgb_to_lrg_single_noeps(R, G, B) ==
    LET S == RAdd(RAdd(RAdd(R, G), B), EPS)
    IN  <<RDiv(RAdd(RAdd(R, G), B), Rat(3, 1)), RDiv(R, S), RDiv(G, S)>>

rgb_to_lrg_single(R, G, B) ==
    LET S == RAdd(RAdd(RAdd(R, G), B), EPS)
    IN  <<RDiv(S, Rat(3, 1)), RDiv(R, S), RDiv(G, S)>>

\* ------------------------------------------------------ feature expanders
\* A term is kept both symbolically (the exponents of L, r, g) and by its
\* value at the probe point, and is built by the multiplications the code makes.
One == [e |-> <<0, 0, 0>>, v |-> 1]
Mul(x, y) == [e |-> <<x.e[1] + y.e[1], x.e[2] + y.e[2], x.e[3] + y.e[3]>>,
              v |-> x.v * y.v]
\* elementwise product of two column vectors
VMul(x, y) == [i \in 1..Len(x) |-> Mul(x[i], y[i])]
column_stack(terms, n) == [i \in 1..n |-> [t \in 1..Len(terms) |-> terms[t][i]]]

\* lines 232-243: the lists appended to `terms` in expand_poly (column vectors)
quadratic_terms(L, r, g) ==
    <<[i \in 1..Len(L) |-> One], L, r, g, VMul(L, L), VMul(r, r), VMul(g, g),
      VMul(L, r), VMul(L, g), VMul(r, g)>>

cubic_terms(L, r, g, order) ==
    IF order >= 3
    THEN <<VMul(VMul(L, L), L), VMul(VMul(r, r), r), VMul(VMul(g, g), g),
           VMul(VMul(L, L), r), VMul(VMul(L, L), g), VMul(VMul(L, r), r),
           VMul(VMul(L, g), g), VMul(VMul(r, r), g), VMul(VMul(r, g), g),
           VMul(VMul(L, r), g)>>
    ELSE <<>>

\* mutant of quartic_terms: L2*r*g written twice, L*r2*g missing
quartic_terms_dup(L, r, g, order) ==
    IF order >= 4
    THEN LET L2 == VMul(L, L)
             r2 == VMul(r, r)
             g2 == VMul(g, g)
         IN  <<VMul(L2, L2), VMul(r2, r2), VMul(g2, g2),
               VMul(VMul(L2, L), r), VMul(VMul(L2, L), g),
               VMul(VMul(L, r2), r), VMul(VMul(r2, r), g),
               VMul(VMul(L, g2), g), VMul(VMul(r, g2), g),
               VMul(L2, r2), VMul(L2, g2), VMul(r2, g2),
               VMul(VMul(L2, r), g), VMul(VMul(L2, r), g), VMul(VMul(L, r), g2)>>
    ELSE <<>>

quartic_terms(L, r, g, order) ==
    IF order >= 4
    THEN LET L2 == VMul(L, L)
             r2 == VMul(r, r)
             g2 == VMul(g, g)
         IN  <<VMul(L2, L2), VMul(r2, r2), VMul(g2, g2),
               VMul(VMul(L2, L), r), VMul(VMul(L2, L), g),
               VMul(VMul(L, r2), r), VMul(VMul(r2, r), g),
               VMul(VMul(L, g2), g), VMul(VMul(r, g2), g),
               VMul(L2, r2), VMul(L2, g2), VMul(r2, g2),
               VMul(VMul(L2, r), g), VMul(VMul(L, r2), g), VMul(VMul(L, r), g2)>>
    ELSE <<>>

\* the list `terms` of expand_poly: one column vector per term
expand_poly_terms(lrg, order) ==
    LET L == [i \in 1..Len(lrg) |-> lrg[i][1]]
        r == [i \in 1..Len(lrg) |-> lrg[i][2]]
        g == [i \in 1..Len(lrg) |-> lrg[i][3]]
    IN  quadratic_terms(L, r, g) \o cubic_terms(L, r, g, order)
          \o quartic_terms(L, r, g, order)

expand_poly(lrg, order) == column_stack(expand_poly_terms(lrg, order), Len(lrg))

\* lines 249-260: the lists appended to `terms` in expand_poly_single (scalars)
quadratic_single(L, r, g) ==
    <<One, L, r, g, Mul(L, L), Mul(r, r), Mul(g, g), Mul(L, r), Mul(L, g), Mul(r, g)>>

\* mutant of cubic_single: order > 3 for order >= 3
cubic_single_gt(L, r, g, order) ==
    IF order > 3
    THEN <<Mul(Mul(L, L), L), Mul(Mul(r, r), r), Mul(Mul(g, g), g),
           Mul(Mul(L, L), r), Mul(Mul(L, L), g), Mul(Mul(L, r), r),
           Mul(Mul(L, g), g), Mul(Mul(r, r), g), Mul(Mul(r, g), g),
           Mul(Mul(L, r), g)>>
    ELSE <<>>

cubic_single(L, r, g, order) ==
    IF order >= 3
    THEN <<Mul(Mul(L, L), L), Mul(Mul(r, r), r), Mul(Mul(g, g), g),
           Mul(Mul(L, L), r), Mul(Mul(L, L), g), Mul(Mul(L, r), r),
           Mul(Mul(L, g), g), Mul(Mul(r, r), g), Mul(Mul(r, g), g),
           Mul(Mul(L, r), g)>>
    ELSE <<>>

\* mutant of quartic_single: L*r2*r and r2*r*g change places
quartic_single_swapped(L, r, g, order) ==
    IF order >= 4
    THEN LET L2 == Mul(L, L)
             r2 == Mul(r, r)
             g2 == Mul(g, g)
         IN  <<Mul(L2, L2), Mul(r2, r2), Mul(g2, g2),
               Mul(Mul(L2, L), r), Mul(Mul(L2, L), g),
               Mul(Mul(r2, r), g), Mul(Mul(L, r2), r),
               Mul(Mul(L, g2), g), Mul(Mul(r, g2), g),
               Mul(L2, r2), Mul(L2, g2), Mul(r2, g2),
               Mul(Mul(L2, r), g), Mul(Mul(L, r2), g), Mul(Mul(L, r), g2)>>
    ELSE <<>>

quartic_single(L, r, g, order) ==
    IF order >= 4
    THEN LET L2 == Mul(L, L)
             r2 == Mul(r, r)
             g2 == Mul(g, g)
         IN  <<Mul(L2, L2), Mul(r2, r2), Mul(g2, g2),
               Mul(Mul(L2, L), r), Mul(Mul(L2, L), g),
               Mul(Mul(L, r2), r), Mul(Mul(r2, r), g),
               Mul(Mul(L, g2), g), Mul(Mul(r, g2), g),
               Mul(L2, r2), Mul(L2, g2), Mul(r2, g2),
               Mul(Mul(L2, r), g), Mul(Mul(L, r2), g), Mul(Mul(L, r), g2)>>
    ELSE <<>>

expand_poly_single(L, r, g, order) ==
    quadratic_single(L, r, g) \o cubic_single(L, r, g, order)
      \o quartic_single(L, r, g, order)

\* X.shape[1]: the number of columns of expand_poly's result, whatever the rows
n_terms_of(order) == Len(expand_poly_terms(<<>>, order))

\* ---------------------------------------------------------------- build_lut
\* Inputs of a call.  sigma_clip is held doubled (sigma_clip2 = 2 * sigma_clip)
\* so that 1.5 is an integer; min_survivor_pct is a whole percentage.
NValues == {0, 3, MIN_FLOOR - 1, MIN_FLOOR, MIN_FLOOR + MaxExtra}
SigmaClip2Values == {-2, 3, 4}
PctValues == {10, 99, 150}
ArgSet == [n : NValues, sigma_clip2 : SigmaClip2Values, clip_rounds : 0..MaxRounds,
           min_survivor_pct : PctValues]

NoModel == [n_terms |-> 0, rows |-> {}, fit |-> 0]
NoLut == [M |-> NoModel]

\* src_all[::step]: the indices kept by the stride
stride(n, step) == {i \in 0..(n - 1) : i % step = 0}
\* mutant of subsample_step: the stride of twice the budget
subsample_step_double(n) == Max(1, n \div (2 * SUBSAMPLE_BUDGET))

\* line 275
subsample_step(n) == Max(1, n \div SUBSAMPLE_BUDGET)
\* mutants of min_survivors_of: min() for max(); the absolute floor left out
min_survivors_of_min(ni, pct) == Min(MIN_FLOOR, (ni * pct) \div 100)
min_survivors_of_pct(ni, pct) == (ni * pct) \div 100
\* max(100, int(n_initial * min_survivor_pct / 100.0)), for a percentage >= 0
min_survivors_of(ni, pct) == Max(MIN_FLOOR, (ni * pct) \div 100)

\* np.linalg.lstsq(expand_poly(src_lrg[rows], use_order), tgt_sub[rows]): the
\* coefficient matrix has one row per term; the fit is identified by its rows
\* and by its position among the fits made.
lstsq(rows, k) == [n_terms |-> n_terms_of(use_order), rows |-> rows, fit |-> k]

\* The residuals a fit leaves: position p (from either end) decides the level;
\* hi_cnt positions are high, a few or half as many as there are inliers (m).
Profiles(m) == [lo : {0, 1}, hi_cnt : (0..MaxOutliers) \cup {m \div 2},
                mid_cnt : {0, 1}, rev : BOOLEAN]
residuals_of(prof, ni) ==
    [i \in 0..(ni - 1) |->
        LET p == IF prof.rev THEN ni - 1 - i ELSE i
        IN  IF p < prof.hi_cnt THEN prof.lo + 3
            ELSE IF p < prof.hi_cnt + prof.mid_cnt THEN prof.lo + 1
            ELSE prof.lo]

RECURSIVE SumRange(_, _, _, _)
\* sum of f[i] over the i in S with lo <= i <= hi (halving keeps the depth low)
SumRange(f, S, lo, hi) ==
    IF lo > hi THEN 0
    ELSE IF lo = hi THEN (IF lo \in S THEN f[lo] ELSE 0)
    ELSE SumRange(f, S, lo, (lo + hi) \div 2)
           + SumRange(f, S, (lo + hi) \div 2 + 1, hi)
\* sum of f[i] over the i in S with i < top
SumTo(f, S, top) == SumRange(f, S, 0, top - 1)

\* n^2 * np.std(res[S])^2 = n * sum(x^2) - sum(x)^2
var_n2(res, S, ni) ==
    LET cnt == Cardinality(S)
        sq == [i \in 0..(ni - 1) |-> res[i] * res[i]]
    IN  cnt * SumTo(sq, S, ni) - SumTo(res, S, ni) * SumTo(res, S, ni)

\* x <= threshold, threshold = sigma_clip * np.std(...), sigma_clip = k2 / 2,
\* where cnt samples have n^2-scaled variance V
le_threshold(x, k2, cnt, V) ==
    IF k2 >= 0
    THEN (2 * x * cnt) * (2 * x * cnt) <= k2 * k2 * V
    ELSE x * cnt = 0 /\ V = 0

\* mutant of inlier_local_of: sigma taken over the whole subsampled set
inlier_local_of_full(res, S, k2, ni) ==
    LET V == var_n2(res, 0..(ni - 1), ni)
    IN  {i \in S : le_threshold(res[i], k2, ni, V)}

\* inlier_local = residuals <= threshold, as the set of indices that are True
inlier_local_of(res, S, k2, ni) ==
    LET cnt == Cardinality(S)
        V == var_n2(res, S, ni)
    IN  {i \in S : le_threshold(res[i], k2, cnt, V)}

\* the q members of T with the lowest (d = 1) or highest (d = -1) indices
take(T, q, d) ==
    LET x == CHOOSE y \in T : Cardinality({j \in T : d * j <= d * y}) = q
    IN  {i \in T : d * i <= d * x}

\* mutant of argsort_keep: the sort runs in descending order
argsort_keep_desc(res, S, cnt, tie) ==
    IF Cardinality(S) <= cnt THEN S
    ELSE LET vals == {res[i] : i \in S}
             t == CHOOSE v \in vals :
                    /\ Cardinality({j \in S : res[j] >= v}) >= cnt
                    /\ Cardinality({j \in S : res[j] > v}) < cnt
             above == {i \in S : res[i] > t}
             ties == {i \in S : res[i] = t}
         IN  above \cup take(ties, cnt - Cardinality(above), IF tie = "lo" THEN 1 ELSE -1)

\* indices[np.argsort(residuals)[:cnt]]: the cnt smallest residuals among S.
\* Samples below the cnt-th smallest value are all kept; among the samples that
\* tie at that value the sort's order decides (lowest or highest index first).
argsort_keep(res, S, cnt, tie) ==
    IF Cardinality(S) <= cnt THEN S
    ELSE LET vals == {res[i] : i \in S}
             t == CHOOSE v \in vals :
                    /\ Cardinality({j \in S : res[j] <= v}) >= cnt
                    /\ Cardinality({j \in S : res[j] < v}) < cnt
             below == {i \in S : res[i] < t}
             ties == {i \in S : res[i] = t}
         IN  below \cup (IF tie = "lo"
                         THEN take(ties, cnt - Cardinality(below), 1)
                         ELSE take(ties, cnt - Cardinality(below), -1))

\* mask[indices[~inlier_local]] = False
\* mutant of commit_mask: the mask is rebuilt from the round's outliers alone
commit_mask_rebuilt(S, inl) ==
    IF S = {} THEN {}
    ELSE {i \in 0..(CHOOSE top \in S : \A j \in S : j <= top) : i \notin (S \ inl)}

commit_mask(S, inl) == S \ {i \in S : i \notin inl}

BuildIdle(at) ==
    /\ pc = at
    /\ n_initial = 0
    /\ min_survivors = 0
    /\ mask = {}
    /\ clip_round = 0
    /\ residuals = << >>
    /\ indices = {}
    /\ M = NoModel
    /\ n_fits = 0
    /\ floor_hit = FALSE
    /\ lut = NoLut
    /\ out = << >>

PolyIdle(at) ==
    /\ p_pc = at
    /\ p_lrg_b = << >>
    /\ p_lrg_s = << >>
    /\ p_feat_b = << >>
    /\ p_feat_s = << >>

RasterIdle(at) ==
    /\ r_pc = at
    /\ r_node = << >>
    /\ r_lut = << >>
    /\ r_writes = << >>

CubeIdle(at) ==
    /\ c_pc = at
    /\ c_node = << >>
    /\ c_file = << >>

CoverageIdle(at) ==
    /\ h_pc = at
    /\ h_idx = << >>
    /\ h_hist = << >>
    /\ h_out = << >>

MainIdle(at) ==
    /\ m_pc = at
    /\ m_gi = 0
    /\ m_src = << >>
    /\ m_lut = << >>
    /\ m_cubes = << >>
    /\ m_results = << >>
    /\ m_out = << >>
    /\ m_exc = ""

StrideIdle(at) ==
    /\ s_pc = at
    /\ s_step = 0
    /\ s_src = << >>
    /\ s_tgt = << >>

LoadIdle(at) ==
    /\ l_pc = at
    /\ l_k = 0
    /\ l_flat = << >>
    /\ l_pair = << >>
    /\ l_all_src = << >>
    /\ l_all_tgt = << >>
    /\ l_combined = << >>
    /\ l_sub = << >>

DirIdle(at) ==
    /\ d_pc = at
    /\ d_raw_files = << >>
    /\ d_k = 0
    /\ d_cubes = {}
    /\ d_passed = << >>
    /\ d_out = << >>
    /\ d_exc = ""

SmoothIdle(at) ==
    /\ q_pc = at
    /\ q_count = << >>
    /\ q_sum = << >>
    /\ q_result = << >>
    /\ q_smoothed = << >>
    /\ q_alias = FALSE
    /\ q_prev = << >>
    /\ q_iter = 0
    /\ q_cell = << >>
    /\ q_out = << >>
    /\ q_exc = ""

IdentityIdle(at) ==
    /\ i_pc = at
    /\ i_M = << >>
    /\ i_node = << >>
    /\ i_lut = << >>
    /\ i_exc = ""

\* build_lut is entered with its arguments bound
Init ==
    /\ args \in ArgSet
    /\ BuildIdle("start")
    /\ p_in = << >>
    /\ PolyIdle("idle")
    /\ r_in = << >>
    /\ RasterIdle("idle")
    /\ c_in = << >>
    /\ CubeIdle("idle")
    /\ h_in = << >>
    /\ CoverageIdle("idle")
    /\ m_in = << >>
    /\ MainIdle("idle")
    /\ s_in = << >>
    /\ StrideIdle("idle")
    /\ l_in = << >>
    /\ LoadIdle("idle")
    /\ d_in = << >>
    /\ DirIdle("idle")
    /\ q_in = << >>
    /\ SmoothIdle("idle")
    /\ i_in = << >>
    /\ IdentityIdle("idle")

\* lines 273-290: subsample, floor count, all-true mask
Subsample ==
    /\ pc = "start"
    /\ LET kept == stride(args.n, subsample_step(args.n))
       IN  /\ n_initial' = Cardinality(kept)
           /\ min_survivors' = min_survivors_of(Cardinality(kept), args.min_survivor_pct)
           /\ mask' = 0..(Cardinality(kept) - 1)
    /\ out' = Append(out, [kind |-> "fitting", n |-> n_initial',
                            min_survivors |-> min_survivors'])
    /\ pc' = "loop"
    /\ UNCHANGED <<args, clip_round, residuals, indices, M, n_fits, floor_hit, lut>>
    /\ UNCHANGED frame_build

\* lines 291-303: a round's fit on the current inliers and its residuals
FitRound ==
    /\ pc = "loop"
    /\ clip_round < args.clip_rounds
    /\ clip_round' = clip_round + 1
    /\ M' = lstsq(mask, n_fits + 1)
    /\ n_fits' = n_fits + 1
    /\ \E prof \in Profiles(Cardinality(mask)) : residuals' = residuals_of(prof, n_initial)
    /\ indices' = mask
    /\ pc' = "clip"
    /\ UNCHANGED <<args, n_initial, min_survivors, mask, floor_hit, lut, out>>
    /\ UNCHANGED frame_build

\* mutant of ClipFloor: the floor branch prints nothing
ClipFloor_silent ==
    /\ pc = "clip"
    /\ Cardinality(inlier_local_of(residuals, mask, args.sigma_clip2, n_initial))
         < min_survivors
    /\ \E tie \in {"lo", "hi"} :
         mask' = argsort_keep(residuals, mask, min_survivors, tie)
    /\ floor_hit' = TRUE
    /\ pc' = "final"
    /\ UNCHANGED <<args, n_initial, min_survivors, clip_round, residuals, indices,
                   M, n_fits, lut, out>>
    /\ UNCHANGED frame_build

\* lines 305-320: the floor branch and its break
ClipFloor ==
    /\ pc = "clip"
    /\ Cardinality(inlier_local_of(residuals, mask, args.sigma_clip2, n_initial))
         < min_survivors
    /\ \E tie \in {"lo", "hi"} :
         mask' = argsort_keep(residuals, mask, min_survivors, tie)
    /\ floor_hit' = TRUE
    /\ out' = Append(out, [kind |-> "floor_hit", round |-> clip_round,
                            kept |-> Cardinality(mask')])
    /\ pc' = "final"
    /\ UNCHANGED <<args, n_initial, min_survivors, clip_round, residuals, indices,
                   M, n_fits, lut>>
    /\ UNCHANGED frame_build

\* lines 322-331: the round commits
ClipCommit ==
    /\ pc = "clip"
    /\ LET inlier_local == inlier_local_of(residuals, mask, args.sigma_clip2, n_initial)
       IN  /\ Cardinality(inlier_local) >= min_survivors
           /\ mask' = commit_mask(mask, inlier_local)
    /\ out' = Append(out, [kind |-> "removed", round |-> clip_round,
                            remain |-> Cardinality(mask')])
    /\ pc' = "loop"
    /\ UNCHANGED <<args, n_initial, min_survivors, clip_round, residuals, indices,
                   M, n_fits, floor_hit, lut>>
    /\ UNCHANGED frame_build

\* lines 345-348: the three lines printed after the final fit
final_report(n_terms, survivors, ni) ==
    <<[kind |-> "polynomial", n_terms |-> n_terms, order |-> use_order],
      [kind |-> "black_point"],
      [kind |-> "survivors", survivors |-> survivors, n |-> ni]>>

\* mutant of FinalFit: no fit after the loop, the last round's M is used
FinalFit_reuse ==
    /\ \/ pc = "final"
       \/ pc = "loop" /\ clip_round >= args.clip_rounds
    /\ out' = out \o final_report(M.n_terms, Cardinality(mask), n_initial)
    /\ pc' = "raster"
    /\ UNCHANGED <<args, n_initial, min_survivors, mask, clip_round, residuals,
                   indices, M, n_fits, floor_hit, lut>>
    /\ UNCHANGED frame_build

\* lines 333-348: the fit after the loop
FinalFit ==
    /\ \/ pc = "final"
       \/ pc = "loop" /\ clip_round >= args.clip_rounds
    /\ M' = lstsq(mask, n_fits + 1)
    /\ n_fits' = n_fits + 1
    /\ out' = out \o final_report(M'.n_terms, Cardinality(mask), n_initial)
    /\ pc' = "raster"
    /\ UNCHANGED <<args, n_initial, min_survivors, mask, clip_round, residuals,
                   indices, floor_hit, lut>>
    /\ UNCHANGED frame_build

\* lines 350-370: rasterization with the coefficients M holds at that point
Rasterize ==
    /\ pc = "raster"
    /\ lut' = [M |-> M]
    /\ pc' = "done"
    /\ UNCHANGED <<args, n_initial, min_survivors, mask, clip_round, residuals,
                   indices, M, n_fits, floor_hit, out>>
    /\ UNCHANGED frame_build

Next == Subsample \/ FitRound \/ ClipFloor \/ ClipCommit \/ FinalFit \/ Rasterize

Spec == Init /\ [][Next]_vars

\* ------------------------------------------------------------ pure helpers
\* An input: the order, an RGB triple a/MaxScale, and the probe point (L, r, g).
PolyInputs == [order : {2, 3, 4},
               rgb : (0..MaxScale) \X (0..MaxScale) \X (0..MaxScale),
               probe : (0..MaxProbe) \X (0..MaxProbe) \X (0..MaxProbe)]

RGBOf(in) == <<Rat(in.rgb[1], MaxScale), Rat(in.rgb[2], MaxScale), Rat(in.rgb[3], MaxScale)>>
\* the formal variables L, r, g with their values at the probe point
SymL(in) == [e |-> <<1, 0, 0>>, v |-> in.probe[1]]
Symr(in) == [e |-> <<0, 1, 0>>, v |-> in.probe[2]]
Symg(in) == [e |-> <<0, 0, 1>>, v |-> in.probe[3]]

InitPoly ==
    /\ p_in \in PolyInputs
    /\ PolyIdle("lrg_batched")
    /\ args = << >>
    /\ BuildIdle("idle")
    /\ r_in = << >>
    /\ RasterIdle("idle")
    /\ c_in = << >>
    /\ CubeIdle("idle")
    /\ h_in = << >>
    /\ CoverageIdle("idle")
    /\ m_in = << >>
    /\ MainIdle("idle")
    /\ s_in = << >>
    /\ StrideIdle("idle")
    /\ l_in = << >>
    /\ LoadIdle("idle")
    /\ d_in = << >>
    /\ DirIdle("idle")
    /\ q_in = << >>
    /\ SmoothIdle("idle")
    /\ i_in = << >>
    /\ IdentityIdle("idle")

\* rgb_to_lrg on the one-row matrix holding the input
TransformBatched ==
    /\ p_pc = "lrg_batched"
    /\ p_lrg_b' = rgb_to_lrg(<<RGBOf(p_in)>>)
    /\ p_pc' = "lrg_single"
    /\ UNCHANGED <<p_in, p_lrg_s, p_feat_b, p_feat_s>>
    /\ UNCHANGED frame_poly

\* rgb_to_lrg_single on the same input
TransformSingle ==
    /\ p_pc = "lrg_single"
    /\ p_lrg_s' = rgb_to_lrg_single(RGBOf(p_in)[1], RGBOf(p_in)[2], RGBOf(p_in)[3])
    /\ p_pc' = "poly_batched"
    /\ UNCHANGED <<p_in, p_lrg_b, p_feat_b, p_feat_s>>
    /\ UNCHANGED frame_poly

\* expand_poly on the one-row matrix holding (L, r, g)
ExpandBatched ==
    /\ p_pc = "poly_batched"
    /\ p_feat_b' = expand_poly(<< <<SymL(p_in), Symr(p_in), Symg(p_in)>> >>, p_in.order)
    /\ p_pc' = "poly_single"
    /\ UNCHANGED <<p_in, p_lrg_b, p_lrg_s, p_feat_s>>
    /\ UNCHANGED frame_poly

\* expand_poly_single on the same triple
ExpandSingle ==
    /\ p_pc = "poly_single"
    /\ p_feat_s' = expand_poly_single(SymL(p_in), Symr(p_in), Symg(p_in), p_in.order)
    /\ p_pc' = "done"
    /\ UNCHANGED <<p_in, p_lrg_b, p_lrg_s, p_feat_b>>
    /\ UNCHANGED frame_poly

NextPoly == TransformBatched \/ TransformSingle \/ ExpandBatched \/ ExpandSingle

SpecPoly == InitPoly /\ [][NextPoly]_vars

\* ------------------------------------------------------------ rasterization
\* lines 350-361, one iteration of the innermost loop a step.  The final
\* coefficient matrix is concrete here: a row of three integer coefficients
\* per polynomial term, in the order expand_poly_single emits the terms.
MaxLutSize == 3      \* lut_size is drawn from 0..MaxLutSize

RMul(x, y) ==
    LET g1 == GCD(Abs(x[1]), y[2])
        g2 == GCD(Abs(y[1]), x[2])
    IN  Rat((x[1] \div g1) * (y[1] \div g2), (x[2] \div g2) * (y[2] \div g1))
RECURSIVE RPow(_, _)
RPow(x, k) == IF k = 0 THEN Rat(1, 1) ELSE RMul(x, RPow(x, k - 1))

\* the exponent vectors of the terms, in expand_poly_single's order
term_exponents(order) ==
    LET f == expand_poly_single([e |-> <<1, 0, 0>>, v |-> 1], [e |-> <<0, 1, 0>>, v |-> 1],
                                [e |-> <<0, 0, 1>>, v |-> 1], order)
    IN  [t \in 1..Len(f) |-> f[t].e]

\* coefficient matrices: only the listed rows are nonzero; an entry is a rational
coefficients(rows) ==
    [t \in 1..n_terms_of(use_order) |->
        IF t \in DOMAIN rows
        THEN <<Rat(rows[t][1], 1), Rat(rows[t][2], 1), Rat(rows[t][3], 1)>>
        ELSE <<Rat(0, 1), Rat(0, 1), Rat(0, 1)>>]
\* terms 1, L, L*r, L*g are rows 1, 2, 8, 9
M_zero == coefficients(<< >>)
M_identity == coefficients([t \in {2, 8, 9} |->
    IF t = 2 THEN <<0, 0, 3>> ELSE IF t = 8 THEN <<3, 0, -3>> ELSE <<0, 3, -3>>])
M_gain == coefficients([t \in {2, 8, 9} |->
    IF t = 2 THEN <<0, 0, 6>> ELSE IF t = 8 THEN <<6, 0, -6>> ELSE <<0, 6, -6>>])
M_invert == coefficients([t \in {1, 2, 8, 9} |->
    IF t = 1 THEN <<1, 1, 1>> ELSE IF t = 2 THEN <<0, 0, -3>>
    ELSE IF t = 8 THEN <<-3, 0, 3>> ELSE <<0, -3, 3>>])
RasterModels == {M_zero, M_identity, M_gain, M_invert}
RasterInputs == [lut_size : 0..MaxLutSize, M : RasterModels]

\* features @ M for one output channel.  A term whose coefficient is zero adds
\* zero and its value is not computed.
RECURSIVE dot(_, _, _, _, _)
dot(exps, lrg, Mx, c, t) ==
    IF t = 0 THEN Rat(0, 1)
    ELSE LET rest == dot(exps, lrg, Mx, c, t - 1)
         IN  IF Mx[t][c][1] = 0 THEN rest
             ELSE RSum(rest, RMul(Mx[t][c],
                         RMul(RPow(lrg[1], exps[t][1]),
                              RMul(RPow(lrg[2], exps[t][2]), RPow(lrg[3], exps[t][3])))))

\* np.clip(x, 0, 1)
clip01(x) == IF x[1] < 0 THEN Rat(0, 1) ELSE IF x[1] > x[2] THEN Rat(1, 1) ELSE x

\* mutant of node_value: the product features @ M is stored unclipped
node_value_noclip(Mx, node, lut_size) ==
    LET scale == lut_size - 1
        lrg == rgb_to_lrg_single(Rat(node[1], scale), Rat(node[2], scale), Rat(node[3], scale))
        exps == term_exponents(use_order)
    IN  [c \in 1..3 |-> dot(exps, lrg, Mx, c, Len(exps))]

\* lines 356-361: the body of the innermost loop, for scale /= 0
node_value(Mx, node, lut_size) ==
    LET scale == lut_size - 1
        lrg == rgb_to_lrg_single(Rat(node[1], scale), Rat(node[2], scale), Rat(node[3], scale))
        exps == term_exponents(use_order)
    IN  [c \in 1..3 |-> clip01(dot(exps, lrg, Mx, c, Len(exps)))]

Nodes(lut_size) == (0..(lut_size - 1)) \X (0..(lut_size - 1)) \X (0..(lut_size - 1))

\* the node after <<ri, gi, bi>> in the loop nest (bi innermost), << >> after the last
next_node(node, lut_size) ==
    IF node[3] + 1 < lut_size THEN <<node[1], node[2], node[3] + 1>>
    ELSE IF node[2] + 1 < lut_size THEN <<node[1], node[2] + 1, 0>>
    ELSE IF node[1] + 1 < lut_size THEN <<node[1] + 1, 0, 0>>
    ELSE << >>

\* the state at line 350: the final fit is made, lut_size is an argument
InitRaster ==
    /\ r_in \in RasterInputs
    /\ RasterIdle("alloc")
    /\ args = << >>
    /\ BuildIdle("idle")
    /\ p_in = << >>
    /\ PolyIdle("idle")
    /\ c_in = << >>
    /\ CubeIdle("idle")
    /\ h_in = << >>
    /\ CoverageIdle("idle")
    /\ m_in = << >>
    /\ MainIdle("idle")
    /\ s_in = << >>
    /\ StrideIdle("idle")
    /\ l_in = << >>
    /\ LoadIdle("idle")
    /\ d_in = << >>
    /\ DirIdle("idle")
    /\ q_in = << >>
    /\ SmoothIdle("idle")
    /\ i_in = << >>
    /\ IdentityIdle("idle")

\* lines 350-351: scale, and lut = np.zeros((lut_size, lut_size, lut_size, 3))
RasterAlloc ==
    /\ r_pc = "alloc"
    /\ r_lut' = [node \in Nodes(r_in.lut_size) |-> [c \in 1..3 |-> Rat(0, 1)]]
    /\ r_writes' = [node \in Nodes(r_in.lut_size) |-> 0]
    /\ r_node' = IF r_in.lut_size = 0 THEN << >> ELSE <<0, 0, 0>>
    /\ r_pc' = IF r_in.lut_size = 0 THEN "done" ELSE "loop"
    /\ UNCHANGED r_in
    /\ UNCHANGED frame_raster

\* mutant of RasterNode: the value is stored at lut[ri, gi, gi]
RasterNode_diag ==
    /\ r_pc = "loop"
    /\ r_in.lut_size - 1 /= 0
    /\ LET cell == <<r_node[1], r_node[2], r_node[2]>>
       IN  /\ r_lut' = [r_lut EXCEPT ![cell] = node_value(r_in.M, r_node, r_in.lut_size)]
           /\ r_writes' = [r_writes EXCEPT ![cell] = @ + 1]
    /\ r_node' = next_node(r_node, r_in.lut_size)
    /\ r_pc' = IF r_node' = << >> THEN "done" ELSE "loop"
    /\ UNCHANGED r_in
    /\ UNCHANGED frame_raster

\* lines 352-361: one iteration, lut[ri, gi, bi] = np.clip(features @ M, 0, 1)
RasterNode ==
    /\ r_pc = "loop"
    /\ r_in.lut_size - 1 /= 0
    /\ r_lut' = [r_lut EXCEPT ![r_node] = node_value(r_in.M, r_node, r_in.lut_size)]
    /\ r_writes' = [r_writes EXCEPT ![r_node] = @ + 1]
    /\ r_node' = next_node(r_node, r_in.lut_size)
    /\ r_pc' = IF r_node' = << >> THEN "done" ELSE "loop"
    /\ UNCHANGED r_in
    /\ UNCHANGED frame_raster

\* line 355 with lut_size = 1: ri / scale divides by zero (ZeroDivisionError)
RasterRaise ==
    /\ r_pc = "loop"
    /\ r_in.lut_size - 1 = 0
    /\ r_pc' = "raised"
    /\ UNCHANGED <<r_in, r_node, r_lut, r_writes>>
    /\ UNCHANGED frame_raster

NextRaster == RasterAlloc \/ RasterNode \/ RasterRaise

SpecRaster == InitRaster /\ [][NextRaster]_vars

\* ----------------------------------------------------------------- write_cube
\* The four write_cube functions of the repository, one data line a step.  A
\* line of the file is a record; a data line holds its three values as
\* printed by '{:.6f}', in millionths.
WriteCubes == {"color/generate_profiles.py", "color/generate_lut.py",
               "color/generate_lut_checker.py", "generate_lut.py"}
Titles == {"", "X-T5 Provia"}

\* an array of shape (N, N, N, 3): a rasterized model when N >= 2
cube_array(Mx, N) ==
    [shape |-> N, cell |-> [node \in Nodes(N) |-> node_value(Mx, node, N)]]
CubeInputs == [impl : WriteCubes,
               lut : {cube_array(Mx, N) : Mx \in {M_identity, M_invert},
                                          N \in {0} \cup (2..MaxLutSize)},
               title : Titles]

\* '{:.6f}' of a value: the nearest multiple of 1e-6, as a count of millionths
format6(x) ==
    LET y == RMul(x, Rat(EPS_DEN, 1))
    IN  (2 * y[1] + y[2]) \div (2 * y[2])

\* mutant of cube_header: the TITLE line is written whatever the title
cube_header_titled(size, title) ==
    <<[kind |-> "TITLE", title |-> title]>>
    \o <<[kind |-> "LUT_3D_SIZE", size |-> size],
         [kind |-> "DOMAIN_MIN", text |-> "0.0 0.0 0.0"],
         [kind |-> "DOMAIN_MAX", text |-> "1.0 1.0 1.0"],
         [kind |-> "blank"]>>

\* the header writes, the same in the four functions
cube_header(size, title) ==
    (IF title /= "" THEN <<[kind |-> "TITLE", title |-> title]>> ELSE << >>)
    \o <<[kind |-> "LUT_3D_SIZE", size |-> size],
         [kind |-> "DOMAIN_MIN", text |-> "0.0 0.0 0.0"],
         [kind |-> "DOMAIN_MAX", text |-> "1.0 1.0 1.0"],
         [kind |-> "blank"]>>

\* the index <<r, g, b>> read in the loop body, from the loop indices <<outer,
\* middle, inner>>: generate_lut.py nests r, g, b; the others nest b, g, r
cube_index(impl, node) ==
    IF impl = "generate_lut.py" THEN node
    ELSE <<node[3], node[2], node[1]>>

cube_line(val) ==
    [kind |-> "data", val |-> <<format6(val[1]), format6(val[2]), format6(val[3])>>]

InitCube ==
    /\ c_in \in CubeInputs
    /\ CubeIdle("open")
    /\ args = << >>
    /\ BuildIdle("idle")
    /\ p_in = << >>
    /\ PolyIdle("idle")
    /\ r_in = << >>
    /\ RasterIdle("idle")
    /\ h_in = << >>
    /\ CoverageIdle("idle")
    /\ m_in = << >>
    /\ MainIdle("idle")
    /\ s_in = << >>
    /\ StrideIdle("idle")
    /\ l_in = << >>
    /\ LoadIdle("idle")
    /\ d_in = << >>
    /\ DirIdle("idle")
    /\ q_in = << >>
    /\ SmoothIdle("idle")
    /\ i_in = << >>
    /\ IdentityIdle("idle")

\* size = lut.shape[0], open, the header writes
CubeHeader ==
    /\ c_pc = "open"
    /\ c_file' = cube_header(c_in.lut.shape, c_in.title)
    /\ c_node' = IF c_in.lut.shape = 0 THEN << >> ELSE <<0, 0, 0>>
    /\ c_pc' = IF c_in.lut.shape = 0 THEN "done" ELSE "data"
    /\ UNCHANGED c_in
    /\ UNCHANGED frame_cube

\* one iteration of the innermost loop: val = lut[r, g, b], one line written
CubeData ==
    /\ c_pc = "data"
    /\ c_file' = Append(c_file, cube_line(c_in.lut.cell[cube_index(c_in.impl, c_node)]))
    /\ c_node' = next_node(c_node, c_in.lut.shape)
    /\ c_pc' = IF c_node' = << >> THEN "done" ELSE "data"
    /\ UNCHANGED c_in
    /\ UNCHANGED frame_cube

NextCube == CubeHeader \/ CubeData

SpecCube == InitCube /\ [][NextCube]_vars

\* ------------------------------------------------------------ analyze_coverage
H_BINS == 12                 \* h_bins = 12
S_BINS == 4                  \* s_bins = 4
V_BINS == 4                  \* v_bins = 4
COVERAGE_BUDGET == 200000    \* n // 200000
MaxRun == 3          \* the two minority colours of a sample appear 0..MaxRun times each

HUE_NAMES == <<"Red", "Orange", "Yellow", "Chartreuse", "Green", "Spring",
               "Cyan", "Azure", "Blue", "Violet", "Magenta", "Rose">>

RSub(x, y) == RAdd(x, Rat(-y[1], y[2]))
RLess(x, y) == x[1] * y[2] < y[1] * x[2]
RMax(x, y) == IF RLess(x, y) THEN y ELSE x
RMin(x, y) == IF RLess(y, x) THEN y ELSE x

\* colorsys.rgb_to_hsv
rgb_to_hsv(rgb) ==
    LET r == rgb[1]
        g == rgb[2]
        b == rgb[3]
        maxc == RMax(RMax(r, g), b)
        minc == RMin(RMin(r, g), b)
        rangec == RSub(maxc, minc)
        v == maxc
    IN  IF minc = maxc THEN <<Rat(0, 1), Rat(0, 1), v>>
        ELSE LET s == RDiv(rangec, maxc)
                 rc == RDiv(RSub(maxc, r), rangec)
                 gc == RDiv(RSub(maxc, g), rangec)
                 bc == RDiv(RSub(maxc, b), rangec)
                 h == IF r = maxc THEN RSub(bc, gc)
                      ELSE IF g = maxc THEN RAdd(Rat(2, 1), RSub(rc, bc))
                      ELSE RAdd(Rat(4, 1), RSub(gc, rc))
                 h6 == RDiv(h, Rat(6, 1))
             IN  <<Rat(h6[1] % h6[2], h6[2]), s, v>>

\* mutant of bin_index: no clip
bin_index_noclip(x, bins) == (x[1] * bins) \div x[2]

\* np.clip((x * bins).astype(int), 0, bins - 1) for x >= 0
bin_index(x, bins) == Max(0, Min((x[1] * bins) \div x[2], bins - 1))

bin_of(rgb) ==
    LET hsv == rgb_to_hsv(rgb)
    IN  <<bin_index(hsv[1], H_BINS), bin_index(hsv[2], S_BINS), bin_index(hsv[3], V_BINS)>>

Cells == (0..(H_BINS - 1)) \X (0..(S_BINS - 1)) \X (0..(V_BINS - 1))

\* lines 411-418: hist[h_idx[i], s_idx[i], v_idx[i]] += 1 over the sample
\* lines 413-415: the bin indices of each pixel of the sample
coverage_bins(sample) ==
    SubSeq([i \in 1..Len(sample) |-> bin_of(sample[i])], 1, Len(sample))

coverage_hist(idx) ==
    [cell \in Cells |-> Cardinality({i \in DOMAIN idx : idx[i] = cell})]

\* hist[...].sum() over a set of cells
RECURSIVE hist_sum(_, _)
hist_sum(hist, T) ==
    IF T = {} THEN 0
    ELSE LET cell == CHOOSE c \in T : TRUE IN hist[cell] + hist_sum(hist, T \ {cell})

\* lines 426-429: the hue messages, in bin order
RECURSIVE hue_suggestions(_, _, _)
hue_suggestions(hist, expected, hi) ==
    IF hi = H_BINS THEN << >>
    ELSE LET hue_total == hist_sum(hist, {c \in Cells : c[1] = hi})
             limit == RMul(RMul(RMul(expected, Rat(S_BINS, 1)), Rat(V_BINS, 1)), Rat(2, 10))
         IN  (IF RLess(Rat(hue_total, 1), limit)
              THEN <<[kind |-> "hue", name |-> HUE_NAMES[hi + 1]]>> ELSE << >>)
             \o hue_suggestions(hist, expected, hi + 1)

\* mutant of region_suggestions: the saturated regions are tested against 30%
region_suggestions_30(hist, expected) ==
    LET dark_total == hist_sum(hist, {c \in Cells : c[2] >= 2 /\ c[3] = 0})
        bright_total == hist_sum(hist, {c \in Cells : c[2] >= 2 /\ c[3] = 3})
        gray_total == hist_sum(hist, {c \in Cells : c[2] = 0})
        sat_limit == RMul(RMul(RMul(expected, Rat(H_BINS, 1)), Rat(2, 1)), Rat(3, 10))
        gray_limit == RMul(RMul(RMul(expected, Rat(H_BINS, 1)), Rat(V_BINS, 1)), Rat(3, 10))
    IN  (IF RLess(Rat(dark_total, 1), sat_limit)
         THEN <<[kind |-> "saturated dark tones"]>> ELSE << >>)
        \o (IF RLess(Rat(bright_total, 1), sat_limit)
            THEN <<[kind |-> "saturated bright tones"]>> ELSE << >>)
        \o (IF RLess(Rat(gray_total, 1), gray_limit)
            THEN <<[kind |-> "neutral/grayscale tones"]>> ELSE << >>)

\* lines 431-443: saturated darks, saturated brights, neutrals
region_suggestions(hist, expected) ==
    LET dark_total == hist_sum(hist, {c \in Cells : c[2] >= 2 /\ c[3] = 0})
        bright_total == hist_sum(hist, {c \in Cells : c[2] >= 2 /\ c[3] = 3})
        gray_total == hist_sum(hist, {c \in Cells : c[2] = 0})
        sat_limit == RMul(RMul(RMul(expected, Rat(H_BINS, 1)), Rat(2, 1)), Rat(2, 10))
        gray_limit == RMul(RMul(RMul(expected, Rat(H_BINS, 1)), Rat(V_BINS, 1)), Rat(3, 10))
    IN  (IF RLess(Rat(dark_total, 1), sat_limit)
         THEN <<[kind |-> "saturated dark tones"]>> ELSE << >>)
        \o (IF RLess(Rat(bright_total, 1), sat_limit)
            THEN <<[kind |-> "saturated bright tones"]>> ELSE << >>)
        \o (IF RLess(Rat(gray_total, 1), gray_limit)
            THEN <<[kind |-> "neutral/grayscale tones"]>> ELSE << >>)

\* src_pixels[::step]
coverage_sample(src_pixels) ==
    LET n == Len(src_pixels)
        step == Max(1, n \div COVERAGE_BUDGET)
        kept == (n + step - 1) \div step
    IN  SubSeq([i \in 1..kept |-> src_pixels[(i - 1) * step + 1]], 1, kept)

\* line 405: hsv of an empty sample has one dimension, hsv[:, 0] raises IndexError
coverage_raises(src_pixels) == Len(coverage_sample(src_pixels)) = 0

\* lines 420-445: the suggestions, from the histogram and len(sample)
coverage_suggestions(hist, len_sample) ==
    LET expected == Rat(len_sample, H_BINS * S_BINS * V_BINS)
    IN  hue_suggestions(hist, expected, 0) \o region_suggestions(hist, expected)

\* lines 399-445, for a sample that is not empty
analyze_coverage(src_pixels) ==
    LET sample == coverage_sample(src_pixels)
    IN  coverage_suggestions(coverage_hist(coverage_bins(sample)), Len(sample))

\* sample colours: <<R, G, B>> and the bin each falls in
Palette == << <<Rat(1, 1), Rat(0, 1), Rat(0, 1)>>,       \* red: bin (0, 3, 3)
              <<Rat(1, 20), Rat(0, 1), Rat(1, 5)>>,      \* dark blue: bin (8, 3, 0)
              <<Rat(1, 2), Rat(1, 2), Rat(1, 2)>>,       \* gray: bin (0, 0, 2)
              <<Rat(1, 1), Rat(0, 1), Rat(1, 4)>>,       \* rose: bin (11, 3, 3)
              <<Rat(1, 2), Rat(1, 1), Rat(3, 5)>> >>     \* pastel green: bin (4, 2, 3)
Fills == {1, 3}
Totals == {0, 40, 120}
CoverageInputs ==
    {in \in [fill : Fills, c1 : DOMAIN Palette, k1 : 0..MaxRun,
             c2 : DOMAIN Palette, k2 : 0..MaxRun, total : Totals] :
        in.k1 + in.k2 <= in.total}

\* the pixel array described by an input: k1 of c1, k2 of c2, the rest fill
pixels_of(in) ==
    SubSeq([i \in 1..in.total |->
               IF i <= in.k1 THEN Palette[in.c1]
               ELSE IF i <= in.k1 + in.k2 THEN Palette[in.c2]
               ELSE Palette[in.fill]], 1, in.total)

InitCoverage ==
    /\ h_in \in CoverageInputs
    /\ CoverageIdle("call")
    /\ args = << >>
    /\ BuildIdle("idle")
    /\ p_in = << >>
    /\ PolyIdle("idle")
    /\ r_in = << >>
    /\ RasterIdle("idle")
    /\ c_in = << >>
    /\ CubeIdle("idle")
    /\ m_in = << >>
    /\ MainIdle("idle")
    /\ s_in = << >>
    /\ StrideIdle("idle")
    /\ l_in = << >>
    /\ LoadIdle("idle")
    /\ d_in = << >>
    /\ DirIdle("idle")
    /\ q_in = << >>
    /\ SmoothIdle("idle")
    /\ i_in = << >>
    /\ IdentityIdle("idle")

\* lines 399-415: the sample, its HSV values and their bin indices
CoverageBins ==
    /\ h_pc = "call"
    /\ ~coverage_raises(pixels_of(h_in))
    /\ h_idx' = coverage_bins(coverage_sample(pixels_of(h_in)))
    /\ h_pc' = "count"
    /\ UNCHANGED <<h_in, h_hist, h_out>>
    /\ UNCHANGED frame_coverage

\* line 405 on an empty sample: IndexError leaves analyze_coverage
CoverageRaise ==
    /\ h_pc = "call"
    /\ coverage_raises(pixels_of(h_in))
    /\ h_pc' = "raised"
    /\ UNCHANGED <<h_in, h_idx, h_hist, h_out>>
    /\ UNCHANGED frame_coverage

\* lines 417-418: the histogram
CoverageCount ==
    /\ h_pc = "count"
    /\ h_hist' = coverage_hist(h_idx)
    /\ h_pc' = "check"
    /\ UNCHANGED <<h_in, h_idx, h_out>>
    /\ UNCHANGED frame_coverage

\* lines 420-445: the thresholds and the returned list
CoverageReturn ==
    /\ h_pc = "check"
    /\ h_out' = coverage_suggestions(h_hist, Len(h_idx))
    /\ h_pc' = "returned"
    /\ UNCHANGED <<h_in, h_idx, h_hist>>
    /\ UNCHANGED frame_coverage

NextCoverage == CoverageBins \/ CoverageRaise \/ CoverageCount \/ CoverageReturn

SpecCoverage == InitCoverage /\ [][NextCoverage]_vars

\* ------------------------------------------------------------------------ main
\* lines 553-608.  A file of a group is "bad" (process_raw or load_jpg raises),
\* "dark" (it loads, no pixel passes brightness > 0.03) or "ok" (it loads with
\* valid pixels).  build_lut and write_cube are taken by their outcome here:
\* build_lut raises ZeroDivisionError for --size 1 (scale = 0) and otherwise
\* returns a LUT; write_cube raises OSError when the output directory cannot be
\* written.
MaxFiles == 2        \* a group holds 1..MaxFiles files

GroupKeys == << <<"X-T5", "Provia">>, <<"X-T5", "Velvia">> >>
FileKinds == {"bad", "dark", "ok"}
FileLists == UNION {[1..k -> FileKinds] : k \in 1..MaxFiles}
MainInputs == [dry_run : BOOLEAN, force : BOOLEAN, size : {1, 2}, writable : BOOLEAN,
               groups : [DOMAIN GroupKeys -> [files : FileLists, exists : BOOLEAN]]]

\* load_pair_pixels: None for a file that fails to load, else its valid pixels
load_pair_pixels(kind) ==
    IF kind = "bad" THEN [pair |-> FALSE]
    ELSE IF kind = "dark" THEN [pair |-> TRUE, src |-> << >>]
    ELSE [pair |-> TRUE, src |-> <<Palette[1], Palette[3]>>]

\* lines 569-575: all_src, the arrays of the pairs that loaded
RECURSIVE load_all(_, _)
load_all(files, k) ==
    IF k > Len(files) THEN << >>
    ELSE LET pair == load_pair_pixels(files[k])
         IN  (IF pair.pair THEN <<pair.src>> ELSE << >>) \o load_all(files, k + 1)

\* np.vstack
RECURSIVE vstack(_)
vstack(arrays) == IF arrays = << >> THEN << >> ELSE Head(arrays) \o vstack(Tail(arrays))

load_errors(files) ==
    LET bad == {k \in 1..Len(files) : files[k] = "bad"}
    IN  [kind |-> "ERROR loading", files |-> bad]

\* out_path of a group: absent, or left by an earlier run
no_cube == [exists |-> FALSE]
old_cube == [exists |-> TRUE, lut |-> [size |-> 0, samples |-> 0]]

InitMain ==
    /\ m_in \in MainInputs
    /\ m_pc = "start"
    /\ m_gi = 0
    /\ m_src = << >>
    /\ m_lut = << >>
    /\ m_cubes = [g \in DOMAIN GroupKeys |->
                     IF m_in.groups[g].exists THEN old_cube ELSE no_cube]
    /\ m_results = << >>
    /\ m_out = << >>
    /\ m_exc = ""
    /\ args = << >>
    /\ BuildIdle("idle")
    /\ p_in = << >>
    /\ PolyIdle("idle")
    /\ r_in = << >>
    /\ RasterIdle("idle")
    /\ c_in = << >>
    /\ CubeIdle("idle")
    /\ h_in = << >>
    /\ CoverageIdle("idle")
    /\ s_in = << >>
    /\ StrideIdle("idle")
    /\ l_in = << >>
    /\ LoadIdle("idle")
    /\ d_in = << >>
    /\ DirIdle("idle")
    /\ q_in = << >>
    /\ SmoothIdle("idle")
    /\ i_in = << >>
    /\ IdentityIdle("idle")

\* lines 553-554: --dry-run returns after the summary of the groups
MainDryRun ==
    /\ m_pc = "start"
    /\ m_in.dry_run
    /\ m_pc' = "done"
    /\ UNCHANGED <<m_in, m_gi, m_src, m_lut, m_cubes, m_results, m_out, m_exc>>
    /\ UNCHANGED frame_main

\* lines 557-558: results = [], the loop begins
MainBegin ==
    /\ m_pc = "start"
    /\ ~m_in.dry_run
    /\ m_gi' = 1
    /\ m_pc' = "group"
    /\ UNCHANGED <<m_in, m_src, m_lut, m_cubes, m_results, m_out, m_exc>>
    /\ UNCHANGED frame_main

\* lines 561-564: the output exists and --force is not given
GroupSkip ==
    /\ m_pc = "group"
    /\ m_gi <= Len(GroupKeys)
    /\ m_cubes[m_gi].exists /\ ~m_in.force
    /\ m_out' = Append(m_out, [kind |-> "SKIP", key |-> GroupKeys[m_gi]])
    /\ m_results' = Append(m_results,
                           [key |-> GroupKeys[m_gi], n |-> Len(m_in.groups[m_gi].files),
                            status |-> "skipped"])
    /\ m_gi' = m_gi + 1
    /\ UNCHANGED <<m_pc, m_in, m_src, m_lut, m_cubes, m_exc>>
    /\ UNCHANGED frame_main

\* mutant of GroupLoad: the existing output is not looked at
GroupLoad_always ==
    /\ m_pc = "group"
    /\ m_gi <= Len(GroupKeys)
    /\ m_src' = load_all(m_in.groups[m_gi].files, 1)
    /\ m_out' = m_out \o <<[kind |-> "BUILD", key |-> GroupKeys[m_gi]],
                           load_errors(m_in.groups[m_gi].files)>>
    /\ m_pc' = "loaded"
    /\ UNCHANGED <<m_in, m_gi, m_lut, m_cubes, m_results, m_exc>>
    /\ UNCHANGED frame_main

\* lines 566-575: the pairs are loaded; a file that fails is reported and left out
GroupLoad ==
    /\ m_pc = "group"
    /\ m_gi <= Len(GroupKeys)
    /\ ~(m_cubes[m_gi].exists /\ ~m_in.force)
    /\ m_src' = load_all(m_in.groups[m_gi].files, 1)
    /\ m_out' = m_out \o <<[kind |-> "BUILD", key |-> GroupKeys[m_gi]],
                           load_errors(m_in.groups[m_gi].files)>>
    /\ m_pc' = "loaded"
    /\ UNCHANGED <<m_in, m_gi, m_lut, m_cubes, m_results, m_exc>>
    /\ UNCHANGED frame_main

\* lines 577-580: no pair loaded
GroupNoPairs ==
    /\ m_pc = "loaded"
    /\ m_src = << >>
    /\ m_out' = Append(m_out, [kind |-> "No valid pairs", key |-> GroupKeys[m_gi]])
    /\ m_results' = Append(m_results,
                           [key |-> GroupKeys[m_gi], n |-> Len(m_in.groups[m_gi].files),
                            status |-> "failed"])
    /\ m_gi' = m_gi + 1
    /\ m_src' = << >>
    /\ m_pc' = "group"
    /\ UNCHANGED <<m_in, m_lut, m_cubes, m_exc>>
    /\ UNCHANGED frame_main

\* lines 582-587: analyze_coverage on the combined pixels returns
GroupCoverage ==
    /\ m_pc = "loaded"
    /\ m_src /= << >>
    /\ ~coverage_raises(vstack(m_src))
    /\ m_out' = Append(m_out, [kind |-> "Combined", n |-> Len(vstack(m_src)),
                               suggestions |-> analyze_coverage(vstack(m_src))])
    /\ m_pc' = "build"
    /\ UNCHANGED <<m_in, m_gi, m_src, m_lut, m_cubes, m_results, m_exc>>
    /\ UNCHANGED frame_main

\* line 587 when the combined array is empty: the IndexError is not caught
GroupCoverageRaise ==
    /\ m_pc = "loaded"
    /\ m_src /= << >>
    /\ coverage_raises(vstack(m_src))
    /\ m_exc' = "IndexError"
    /\ m_pc' = "crashed"
    /\ UNCHANGED <<m_in, m_gi, m_src, m_lut, m_cubes, m_results, m_out>>
    /\ UNCHANGED frame_main

\* lines 590-597: build_lut returns
GroupBuild ==
    /\ m_pc = "build"
    /\ m_in.size - 1 /= 0
    /\ m_lut' = [size |-> m_in.size, samples |-> Len(vstack(m_src))]
    /\ m_out' = Append(m_out, [kind |-> "Fit", key |-> GroupKeys[m_gi]])
    /\ m_pc' = "write"
    /\ UNCHANGED <<m_in, m_gi, m_src, m_cubes, m_results, m_exc>>
    /\ UNCHANGED frame_main

\* line 590 with --size 1: the ZeroDivisionError of the rasterization is not caught
GroupBuildRaise ==
    /\ m_pc = "build"
    /\ m_in.size - 1 = 0
    /\ m_exc' = "ZeroDivisionError"
    /\ m_pc' = "crashed"
    /\ UNCHANGED <<m_in, m_gi, m_src, m_lut, m_cubes, m_results, m_out>>
    /\ UNCHANGED frame_main

\* lines 605-608: the file is written and the group recorded
GroupWrite ==
    /\ m_pc = "write"
    /\ m_in.writable
    /\ m_cubes' = [m_cubes EXCEPT ![m_gi] = [exists |-> TRUE, lut |-> m_lut]]
    /\ m_out' = Append(m_out, [kind |-> "Written", key |-> GroupKeys[m_gi]])
    /\ m_results' = Append(m_results,
                           [key |-> GroupKeys[m_gi], n |-> Len(m_src), status |-> "ok"])
    /\ m_gi' = m_gi + 1
    /\ m_src' = << >>
    /\ m_lut' = << >>
    /\ m_pc' = "group"
    /\ UNCHANGED <<m_in, m_exc>>
    /\ UNCHANGED frame_main

\* line 605 when mkdir or open fails: the OSError is not caught
GroupWriteRaise ==
    /\ m_pc = "write"
    /\ ~m_in.writable
    /\ m_exc' = "OSError"
    /\ m_pc' = "crashed"
    /\ UNCHANGED <<m_in, m_gi, m_src, m_lut, m_cubes, m_results, m_out>>
    /\ UNCHANGED frame_main

\* lines 610-618: the loop is over, the final summary
MainSummary ==
    /\ m_pc = "group"
    /\ m_gi > Len(GroupKeys)
    /\ m_out' = Append(m_out, [kind |-> "summary", rows |-> Len(m_results)])
    /\ m_pc' = "done"
    /\ UNCHANGED <<m_in, m_gi, m_src, m_lut, m_cubes, m_results, m_exc>>
    /\ UNCHANGED frame_main

NextMain ==
    \/ MainDryRun \/ MainBegin \/ GroupSkip \/ GroupLoad \/ GroupNoPairs
    \/ GroupCoverage \/ GroupCoverageRaise \/ GroupBuild \/ GroupBuildRaise
    \/ GroupWrite \/ GroupWriteRaise \/ MainSummary

SpecMain == InitMain /\ [][NextMain]_vars

\* ------------------------------------------------------------------
\* SpecStride: lines 273-278 of build_lut for n around the multiples of the
\* budget.  A slice a[::step] of n rows is kept as its step and its length;
\* its k-th row is row k*step of a.

MaxMult == 3
MaxDelta == 12

StrideNs ==
    {k * SUBSAMPLE_BUDGET + d : k \in 0..MaxMult, d \in (0 - MaxDelta)..MaxDelta} \cap Nat

\* len(a[::step]) for an array of n rows
slice_len(n, step) == (n + step - 1) \div step

\* a[::step]
slice(n, step) == [step |-> step, len |-> slice_len(n, step)]

\* the row of a that a[::step][k] is
slice_row(sl, k) == k * sl.step

InitStride ==
    /\ s_in \in StrideNs
    /\ StrideIdle("start")
    /\ args = << >>
    /\ BuildIdle("idle")
    /\ p_in = << >>
    /\ PolyIdle("idle")
    /\ r_in = << >>
    /\ RasterIdle("idle")
    /\ c_in = << >>
    /\ CubeIdle("idle")
    /\ h_in = << >>
    /\ CoverageIdle("idle")
    /\ m_in = << >>
    /\ MainIdle("idle")
    /\ l_in = << >>
    /\ LoadIdle("idle")
    /\ d_in = << >>
    /\ DirIdle("idle")
    /\ q_in = << >>
    /\ SmoothIdle("idle")
    /\ i_in = << >>
    /\ IdentityIdle("idle")

\* lines 274-277
StrideSubsample ==
    /\ s_pc = "start"
    /\ s_step' = subsample_step(s_in)
    /\ s_src' = slice(s_in, s_step')
    /\ s_tgt' = slice(s_in, s_step')
    /\ s_pc' = "done"
    /\ UNCHANGED s_in
    /\ UNCHANGED frame_stride

NextStride == StrideSubsample

SpecStride == InitStride /\ [][NextStride]_vars

\* ------------------------------------------------------------------
\* SpecLoad: load_pair_pixels (lines 143-194) on small images, the loop of
\* main that collects and stacks its results (lines 569-583) and the
\* subsampling of build_lut (lines 274-277).  An image is its shape <<h, w>>
\* and its pixels px[<<y, x>>]; an array of pixels is a sequence.

MaxPairs == 2

Shapes == {<<4, 4>>, <<5, 1>>, <<2, 3>>}
Patterns == {0, 1}
PairInputs ==
    [loads : {TRUE}, source : {"JPG", "embedded"}, raw : Shapes, jpg : Shapes,
     pattern : Patterns]
      \cup {[loads |-> FALSE, source |-> "JPG", raw |-> <<4, 4>>, jpg |-> <<4, 4>>,
             pattern |-> 0]}
LoadInputs == UNION {[1..k -> PairInputs] : k \in 1..MaxPairs}

\* 8-bit pixels of the developed RAW: black, just below the brightness
\* threshold (7/255), just above it (8/255), bright
Levels == <<<<0, 0, 0>>, <<2, 2, 3>>, <<3, 3, 2>>, <<200, 100, 50>>>>

\* the pixel positions (y, x) of an array of that shape
pixel_grid(shape) == (0..(shape[1] - 1)) \X (0..(shape[2] - 1))

\* process_raw: pattern 0 mixes the four levels, pattern 1 is dark throughout
raw_image(file) ==
    [shape |-> file.raw,
     px |-> [p \in pixel_grid(file.raw) |->
                IF file.pattern = 0 THEN Levels[((2 * p[1] + p[2]) % 4) + 1]
                ELSE Levels[((p[1] + p[2]) % 2) + 1]]]

\* load_jpg, extract_embedded_preview: every pixel distinct, so that a row of
\* the target tells which pixel of the JPG it is
jpg_image(file) ==
    [shape |-> file.jpg,
     px |-> [p \in pixel_grid(file.jpg) |-> <<100 + p[1], 100 + p[2], 255>>]]

\* a[lo:hi] on an axis of length len: the first index kept and the count
slice_bound(i, len) == IF i < 0 THEN Max(i + len, 0) ELSE Min(i, len)
slice_axis(lo, hi, len) ==
    [from |-> slice_bound(lo, len),
     count |-> Max(slice_bound(hi, len) - slice_bound(lo, len), 0)]

\* img[y0:y1, x0:x1]
slice2(img, y0, y1, x0, x1) ==
    LET ys == slice_axis(y0, y1, img.shape[1])
        xs == slice_axis(x0, x1, img.shape[2])
    IN  [shape |-> <<ys.count, xs.count>>,
         px |-> [p \in pixel_grid(<<ys.count, xs.count>>) |->
                    img.px[<<ys.from + p[1], xs.from + p[2]>>]]]

\* Image.resize((w, h)): the pixel values are taken from the nearest source
\* pixel; the shape is what the code depends on
resize(img, w, h) ==
    [shape |-> <<h, w>>,
     px |-> [p \in pixel_grid(<<h, w>>) |->
                img.px[<<(p[1] * img.shape[1]) \div h, (p[2] * img.shape[2]) \div w>>]]]

\* lines 135-140
center_crop_square(img, size) ==
    LET h == img.shape[1]
        w == img.shape[2]
        y0 == (h - size) \div 2
        x0 == (w - size) \div 2
    IN  slice2(img, y0, y0 + size, x0, x0 + size)

\* .astype(np.float32) / 255.0 of one pixel
to_float(px) == <<Rat(px[1], 255), Rat(px[2], 255), Rat(px[3], 255)>>

\* .reshape(-1, 3): the rows in row-major order
reshape_flat(img) ==
    LET h == img.shape[1]
        w == img.shape[2]
    IN  SubSeq([i \in 1..(h * w) |-> to_float(img.px[<<(i - 1) \div w, (i - 1) % w>>])],
               1, h * w)

\* src_flat.sum(axis=1) of one row
brightness_of(row) == RAdd(RAdd(row[1], row[2]), row[3])

\* mutant of valid_mask: the threshold 0.02
valid_mask_002(src_flat) ==
    [i \in DOMAIN src_flat |-> RLess(<<2, 100>>, brightness_of(src_flat[i]))]

\* lines 186-187
valid_mask(src_flat) ==
    [i \in DOMAIN src_flat |-> RLess(<<3, 100>>, brightness_of(src_flat[i]))]

\* a[valid]
RECURSIVE boolean_index(_, _, _)
boolean_index(a, valid, i) ==
    IF i > Len(a) THEN << >>
    ELSE (IF valid[i] THEN <<a[i]>> ELSE << >>) \o boolean_index(a, valid, i + 1)

\* lines 161-185: the two flattened crops
pair_flat(file) ==
    LET raw_img == raw_image(file)
        jpg_img == jpg_image(file)
        raw_h == raw_img.shape[1]
        raw_w == raw_img.shape[2]
        jpg_h == jpg_img.shape[1]
        jpg_w == jpg_img.shape[2]
        embedded_small == /\ file.source = "embedded"
                          /\ \/ 2 * raw_h > 3 * jpg_h
                             \/ 2 * raw_w > 3 * jpg_w
        h == IF embedded_small THEN jpg_h ELSE Min(raw_h, jpg_h)
        w == Min(raw_w, jpg_w)
        raw_resized ==
            IF embedded_small THEN resize(raw_img, jpg_w, jpg_h)
            ELSE slice2(raw_img, (raw_h - h) \div 2, (raw_h - h) \div 2 + h,
                        (raw_w - w) \div 2, (raw_w - w) \div 2 + w)
        jpg_cut ==
            IF embedded_small THEN jpg_img
            ELSE slice2(jpg_img, (jpg_h - h) \div 2, (jpg_h - h) \div 2 + h,
                        (jpg_w - w) \div 2, (jpg_w - w) \div 2 + w)
        crop_size == h \div 2
    IN  [src |-> reshape_flat(center_crop_square(raw_resized, crop_size)),
         tgt |-> reshape_flat(center_crop_square(jpg_cut, crop_size))]

\* lines 186-194: the rows of both crops where the source is bright enough
pair_valid(flat) ==
    LET valid == valid_mask(flat.src)
    IN  [pair |-> TRUE,
         src |-> boolean_index(flat.src, valid, 1),
         tgt |-> boolean_index(flat.tgt, valid, 1)]

\* a[::step] of a sequence
strided(a, step) ==
    LET n == slice_len(Len(a), step)
    IN  SubSeq([k \in 1..n |-> a[(k - 1) * step + 1]], 1, n)

InitLoad ==
    /\ l_in \in LoadInputs
    /\ LoadIdle("files")
    /\ args = << >>
    /\ BuildIdle("idle")
    /\ p_in = << >>
    /\ PolyIdle("idle")
    /\ r_in = << >>
    /\ RasterIdle("idle")
    /\ c_in = << >>
    /\ CubeIdle("idle")
    /\ h_in = << >>
    /\ CoverageIdle("idle")
    /\ m_in = << >>
    /\ MainIdle("idle")
    /\ s_in = << >>
    /\ StrideIdle("idle")
    /\ d_in = << >>
    /\ DirIdle("idle")
    /\ q_in = << >>
    /\ SmoothIdle("idle")
    /\ i_in = << >>
    /\ IdentityIdle("idle")

\* lines 571-575 with 143-194: a pair that fails to load is passed over
LoadFails ==
    /\ l_pc = "files"
    /\ l_k < Len(l_in)
    /\ ~l_in[l_k + 1].loads
    /\ l_k' = l_k + 1
    /\ l_flat' = << >>
    /\ l_pair' = [pair |-> FALSE]
    /\ UNCHANGED <<l_pc, l_in, l_all_src, l_all_tgt, l_combined, l_sub>>
    /\ UNCHANGED frame_load

\* lines 571-575 with 143-194: a pair that loads is cropped, filtered, collected
LoadPair ==
    /\ l_pc = "files"
    /\ l_k < Len(l_in)
    /\ l_in[l_k + 1].loads
    /\ l_k' = l_k + 1
    /\ l_flat' = pair_flat(l_in[l_k + 1])
    /\ l_pair' = pair_valid(l_flat')
    /\ l_all_src' = Append(l_all_src, l_pair'.src)
    /\ l_all_tgt' = Append(l_all_tgt, l_pair'.tgt)
    /\ UNCHANGED <<l_pc, l_in, l_combined, l_sub>>
    /\ UNCHANGED frame_load

\* lines 577-580
LoadNoPairs ==
    /\ l_pc = "files"
    /\ l_k = Len(l_in)
    /\ l_all_src = << >>
    /\ l_pc' = "failed"
    /\ UNCHANGED <<l_in, l_k, l_flat, l_pair, l_all_src, l_all_tgt, l_combined, l_sub>>
    /\ UNCHANGED frame_load

\* lines 582-583
LoadStack ==
    /\ l_pc = "files"
    /\ l_k = Len(l_in)
    /\ l_all_src /= << >>
    /\ l_combined' = [src |-> vstack(l_all_src), tgt |-> vstack(l_all_tgt)]
    /\ l_pc' = "stacked"
    /\ UNCHANGED <<l_in, l_k, l_flat, l_pair, l_all_src, l_all_tgt, l_sub>>
    /\ UNCHANGED frame_load

\* lines 274-277 of build_lut on the stacked arrays
LoadSubsample ==
    /\ l_pc = "stacked"
    /\ LET step == subsample_step(Len(l_combined.src))
       IN  l_sub' = [src |-> strided(l_combined.src, step),
                     tgt |-> strided(l_combined.tgt, step)]
    /\ l_pc' = "subsampled"
    /\ UNCHANGED <<l_in, l_k, l_flat, l_pair, l_all_src, l_all_tgt, l_combined>>
    /\ UNCHANGED frame_load

NextLoad == LoadFails \/ LoadPair \/ LoadNoPairs \/ LoadStack \/ LoadSubsample

SpecLoad == InitLoad /\ [][NextLoad]_vars

\* ------------------------------------------------------------------
\* SpecDir: process_directory of scripts/color/generate_lut.py (lines 250-286),
\* scripts/generate_lut.py (259-300) and scripts/color/generate_lut_checker.py
\* (465-507).  The directory holds up to MaxRaw RAW files, in name order; each
\* has an extension, may have a .JPG beside it, has a Sigma style name or none,
\* and process_pair on it returns or raises.

MaxRaw == 2

Stems == <<"A", "B", "C">>
DirScripts == {"color/generate_lut.py", "generate_lut.py", "color/generate_lut_checker.py"}
RawFiles ==
    [present : {TRUE}, ext : {"DNG", "ARW"}, jpg : BOOLEAN, style : {"", "Vivid"},
     outcome : {"ok", "RuntimeError", "OSError"}]
      \cup {[present |-> FALSE, ext |-> "DNG", jpg |-> FALSE, style |-> "",
             outcome |-> "ok"]}
CubeNames == {Stems[i] : i \in 1..MaxRaw} \cup {"Vivid"}
DirInputs ==
    [script : DirScripts, embedded : BOOLEAN, files : [1..MaxRaw -> RawFiles],
     cubes : SUBSET CubeNames]

\* sorted(dir_path.glob("*." + ext)): the indices of the files with that
\* extension, in name order
RECURSIVE glob_sorted(_, _, _)
glob_sorted(files, ext, i) ==
    IF i > Len(files) THEN << >>
    ELSE (IF files[i].present /\ files[i].ext = ext THEN <<i>> ELSE << >>)
             \o glob_sorted(files, ext, i + 1)

\* the DNG files, or the ARW files when there is no DNG
raw_files_of(files) ==
    IF glob_sorted(files, "DNG", 1) /= << >> THEN glob_sorted(files, "DNG", 1)
    ELSE glob_sorted(files, "ARW", 1)

\* read_sigma_style with the fallback to the stem: the name of the output
out_name(files, i) == IF files[i].style /= "" THEN files[i].style ELSE Stems[i]

\* the except clause around process_pair, which only the checker script has
catches(script, exc) == script = "color/generate_lut_checker.py" /\ exc = "RuntimeError"

InitDir ==
    /\ d_in \in DirInputs
    /\ d_pc = "start"
    /\ d_raw_files = << >>
    /\ d_k = 0
    /\ d_cubes = d_in.cubes
    /\ d_passed = << >>
    /\ d_out = << >>
    /\ d_exc = ""
    /\ args = << >>
    /\ BuildIdle("idle")
    /\ p_in = << >>
    /\ PolyIdle("idle")
    /\ r_in = << >>
    /\ RasterIdle("idle")
    /\ c_in = << >>
    /\ CubeIdle("idle")
    /\ h_in = << >>
    /\ CoverageIdle("idle")
    /\ m_in = << >>
    /\ MainIdle("idle")
    /\ s_in = << >>
    /\ StrideIdle("idle")
    /\ l_in = << >>
    /\ LoadIdle("idle")
    /\ q_in = << >>
    /\ SmoothIdle("idle")
    /\ i_in = << >>
    /\ IdentityIdle("idle")

\* the globs find no RAW file: a message and the return
DirNoRaw ==
    /\ d_pc = "start"
    /\ raw_files_of(d_in.files) = << >>
    /\ d_out' = Append(d_out, [kind |-> "No RAW files found"])
    /\ d_pc' = "done"
    /\ UNCHANGED <<d_in, d_raw_files, d_k, d_cubes, d_passed, d_exc>>
    /\ UNCHANGED frame_dir

\* the globs and mkdir
DirScan ==
    /\ d_pc = "start"
    /\ raw_files_of(d_in.files) /= << >>
    /\ d_raw_files' = raw_files_of(d_in.files)
    /\ d_pc' = "loop"
    /\ UNCHANGED <<d_in, d_k, d_cubes, d_passed, d_out, d_exc>>
    /\ UNCHANGED frame_dir

\* an iteration whose out_path exists
DirSkipExists ==
    /\ d_pc = "loop"
    /\ d_k < Len(d_raw_files)
    /\ out_name(d_in.files, d_raw_files[d_k + 1]) \in d_cubes
    /\ d_out' = Append(d_out, [kind |-> "Skipping (already exists)",
                               file |-> d_raw_files[d_k + 1]])
    /\ d_k' = d_k + 1
    /\ UNCHANGED <<d_pc, d_in, d_raw_files, d_cubes, d_passed, d_exc>>
    /\ UNCHANGED frame_dir

\* an iteration without the embedded flag whose RAW has no .JPG or .jpg
DirSkipNoJpg ==
    /\ d_pc = "loop"
    /\ d_k < Len(d_raw_files)
    /\ out_name(d_in.files, d_raw_files[d_k + 1]) \notin d_cubes
    /\ ~d_in.embedded
    /\ ~d_in.files[d_raw_files[d_k + 1]].jpg
    /\ d_out' = Append(d_out, [kind |-> "Skipping (no matching JPG)",
                               file |-> d_raw_files[d_k + 1]])
    /\ d_k' = d_k + 1
    /\ UNCHANGED <<d_pc, d_in, d_raw_files, d_cubes, d_passed, d_exc>>
    /\ UNCHANGED frame_dir

\* an iteration that calls process_pair
DirCalls ==
    /\ d_pc = "loop"
    /\ d_k < Len(d_raw_files)
    /\ out_name(d_in.files, d_raw_files[d_k + 1]) \notin d_cubes
    /\ d_in.embedded \/ d_in.files[d_raw_files[d_k + 1]].jpg

\* process_pair returns: the .cube is written
DirProcess ==
    /\ DirCalls
    /\ d_in.files[d_raw_files[d_k + 1]].outcome = "ok"
    /\ d_passed' = Append(d_passed, d_raw_files[d_k + 1])
    /\ d_cubes' = d_cubes \cup {out_name(d_in.files, d_raw_files[d_k + 1])}
    /\ d_out' = Append(d_out, [kind |-> "Processing", file |-> d_raw_files[d_k + 1]])
    /\ d_k' = d_k + 1
    /\ UNCHANGED <<d_pc, d_in, d_raw_files, d_exc>>
    /\ UNCHANGED frame_dir

\* process_pair raises what the script catches: ERROR is printed, the loop goes on
DirProcessCaught ==
    /\ DirCalls
    /\ d_in.files[d_raw_files[d_k + 1]].outcome /= "ok"
    /\ catches(d_in.script, d_in.files[d_raw_files[d_k + 1]].outcome)
    /\ d_passed' = Append(d_passed, d_raw_files[d_k + 1])
    /\ d_out' = d_out \o <<[kind |-> "Processing", file |-> d_raw_files[d_k + 1]],
                           [kind |-> "ERROR", file |-> d_raw_files[d_k + 1]]>>
    /\ d_k' = d_k + 1
    /\ UNCHANGED <<d_pc, d_in, d_raw_files, d_cubes, d_exc>>
    /\ UNCHANGED frame_dir

\* process_pair raises what the script does not catch: the exception leaves
\* process_directory
DirProcessRaise ==
    /\ DirCalls
    /\ d_in.files[d_raw_files[d_k + 1]].outcome /= "ok"
    /\ ~catches(d_in.script, d_in.files[d_raw_files[d_k + 1]].outcome)
    /\ d_passed' = Append(d_passed, d_raw_files[d_k + 1])
    /\ d_out' = Append(d_out, [kind |-> "Processing", file |-> d_raw_files[d_k + 1]])
    /\ d_exc' = d_in.files[d_raw_files[d_k + 1]].outcome
    /\ d_pc' = "crashed"
    /\ UNCHANGED <<d_in, d_raw_files, d_k, d_cubes>>
    /\ UNCHANGED frame_dir

\* the loop is over
DirReturn ==
    /\ d_pc = "loop"
    /\ d_k = Len(d_raw_files)
    /\ d_pc' = "done"
    /\ UNCHANGED <<d_in, d_raw_files, d_k, d_cubes, d_passed, d_out, d_exc>>
    /\ UNCHANGED frame_dir

NextDir ==
    \/ DirNoRaw \/ DirScan \/ DirSkipExists \/ DirSkipNoJpg
    \/ DirProcess \/ DirProcessCaught \/ DirProcessRaise \/ DirReturn

SpecDir == InitDir /\ [][NextDir]_vars

\* ------------------------------------------------------------------
\* SpecSmooth: build_3d_lut (lines 101-151) and smooth_lut (154-183) of
\* scripts/generate_lut.py.  The pixel pairs are given as two runs of equal
\* pairs; an array over the grid is a function on its cells <<r, g, b>>.
\* Assigning one array name to another makes the two names refer to one
\* array, which q_alias records.

ITERATIONS == 3

LutSizes == {1, 2}
RunCounts == {0, 1, 15}
SrcColours == {<<Rat(0, 1), Rat(0, 1), Rat(0, 1)>>,
               <<Rat(1, 2), Rat(1, 1), Rat(0, 1)>>,
               <<Rat(1, 1), Rat(1, 2), Rat(1, 1)>>,
               <<Rat(1, 1), Rat(1, 1), Rat(1, 1)>>}
TgtColours == {<<Rat(1, 2), Rat(1, 1), Rat(0, 1)>>,
               <<Rat(0, 1), Rat(1, 2), Rat(1, 1)>>}
SmoothInputs ==
    [lut_size : LutSizes,
     src1 : SrcColours, tgt1 : TgtColours, k1 : RunCounts,
     src2 : SrcColours, tgt2 : TgtColours, k2 : RunCounts]

\* the runs of an input: the source, the target and the number of such pixels
runs_of(in) == <<[src |-> in.src1, tgt |-> in.tgt1, k |-> in.k1],
                 [src |-> in.src2, tgt |-> in.tgt2, k |-> in.k2]>>

grid(size) == (0..(size - 1)) \X (0..(size - 1)) \X (0..(size - 1))

\* float addition and division by a count, kept exact
RScale(x, k) ==
    LET g == GCD(k, x[2])
    IN  Rat(x[1] * (k \div g), x[2] \div g)
ROver(x, n) ==
    LET g == GCD(Abs(x[1]), n)
    IN  Rat(x[1] \div g, x[2] * (n \div g))
VSum(u, v) == <<RSum(u[1], v[1]), RSum(u[2], v[2]), RSum(u[3], v[3])>>
VScale(u, k) == <<RScale(u[1], k), RScale(u[2], k), RScale(u[3], k)>>
VOver(u, n) == <<ROver(u[1], n), ROver(u[2], n), ROver(u[3], n)>>
VZero == <<Rat(0, 1), Rat(0, 1), Rat(0, 1)>>

\* mutant of quantize: rounding to the nearest node
quantize_round(x, scale) ==
    Max(0, Min(scale, (2 * x[1] * scale + x[2]) \div (2 * x[2])))

\* line 123: np.clip(x * scale, 0, scale).astype(np.int32)
quantize(x, scale) == Max(0, Min(scale, (x[1] * scale) \div x[2]))

\* the cell a source pixel is accumulated into
cell_of(src, scale) ==
    <<quantize(src[1], scale), quantize(src[2], scale), quantize(src[3], scale)>>

\* lines 128-129: np.add.at over the runs
accumulate_count(runs, scale, size) ==
    [c \in grid(size) |->
        (IF cell_of(runs[1].src, scale) = c THEN runs[1].k ELSE 0)
      + (IF cell_of(runs[2].src, scale) = c THEN runs[2].k ELSE 0)]
accumulate_sum(runs, scale, size) ==
    [c \in grid(size) |->
        VSum(IF cell_of(runs[1].src, scale) = c THEN VScale(runs[1].tgt, runs[1].k)
             ELSE VZero,
             IF cell_of(runs[2].src, scale) = c THEN VScale(runs[2].tgt, runs[2].k)
             ELSE VZero)]

\* lines 132-134: the mean where a cell has samples
average(sum, count) ==
    [c \in DOMAIN sum |-> IF count[c] > 0 THEN VOver(sum[c], count[c]) ELSE sum[c]]

\* line 142
identity_of(c, scale) == <<Rat(c[1], scale), Rat(c[2], scale), Rat(c[3], scale)>>

\* lines 145-146
fill_empty(sum, count, scale) ==
    [c \in DOMAIN sum |-> IF count[c] > 0 THEN sum[c] ELSE identity_of(c, scale)]

\* counts.max()
RECURSIVE counts_max(_, _)
counts_max(count, T) ==
    IF T = {} THEN 0
    ELSE LET c == CHOOSE x \in T : TRUE
         IN  Max(count[c], counts_max(count, T \ {c}))

\* line 162 and the test of line 169: weight[r, g, b] > 0.8
well_sampled(count, c) ==
    LET top == Max(counts_max(count, DOMAIN count), 1)
        weight == RMin(Rat(count[c] * 10, top), Rat(1, 1))
    IN  RLess(Rat(8, 10), weight)

Offsets == <<<<-1, 0, 0>>, <<1, 0, 0>>, <<0, -1, 0>>, <<0, 1, 0>>, <<0, 0, -1>>, <<0, 0, 1>>>>

\* lines 173-180: the cell and its in-range neighbours, read from array a
RECURSIVE neighbour_total(_, _, _, _)
neighbour_total(a, c, size, k) ==
    IF k > Len(Offsets) THEN [total |-> a[c], n |-> 1]
    ELSE LET rest == neighbour_total(a, c, size, k + 1)
             nc == <<c[1] + Offsets[k][1], c[2] + Offsets[k][2], c[3] + Offsets[k][3]>>
         IN  IF nc \in grid(size)
             THEN [total |-> VSum(rest.total, a[nc]), n |-> rest.n + 1]
             ELSE rest
cell_average(a, c, size) ==
    LET t == neighbour_total(a, c, size, 1)
    IN  VOver(t.total, t.n)

\* the order of the loops over r, g, b; <<size, 0, 0>> when they are over
cell_after(c, size) ==
    IF c[3] + 1 < size THEN <<c[1], c[2], c[3] + 1>>
    ELSE IF c[2] + 1 < size THEN <<c[1], c[2] + 1, 0>>
    ELSE <<c[1] + 1, 0, 0>>

InitSmooth ==
    /\ q_in \in SmoothInputs
    /\ SmoothIdle("start")
    /\ args = << >>
    /\ BuildIdle("idle")
    /\ p_in = << >>
    /\ PolyIdle("idle")
    /\ r_in = << >>
    /\ RasterIdle("idle")
    /\ c_in = << >>
    /\ CubeIdle("idle")
    /\ h_in = << >>
    /\ CoverageIdle("idle")
    /\ m_in = << >>
    /\ MainIdle("idle")
    /\ s_in = << >>
    /\ StrideIdle("idle")
    /\ l_in = << >>
    /\ LoadIdle("idle")
    /\ d_in = << >>
    /\ DirIdle("idle")
    /\ i_in = << >>
    /\ IdentityIdle("idle")

\* lines 112-134: quantize, accumulate, average
Build3dAccumulate ==
    /\ q_pc = "start"
    /\ LET scale == q_in.lut_size - 1
       IN  /\ q_count' = accumulate_count(runs_of(q_in), scale, q_in.lut_size)
           /\ q_sum' = average(accumulate_sum(runs_of(q_in), scale, q_in.lut_size),
                               q_count')
    /\ q_pc' = "averaged"
    /\ UNCHANGED <<q_in, q_result, q_smoothed, q_alias, q_prev, q_iter, q_cell, q_out,
                   q_exc>>
    /\ UNCHANGED frame_smooth

\* line 142 with lut_size = 1: r / scale divides by zero
Build3dRaise ==
    /\ q_pc = "averaged"
    /\ q_in.lut_size - 1 = 0
    /\ q_exc' = "ZeroDivisionError"
    /\ q_pc' = "raised"
    /\ UNCHANGED <<q_in, q_count, q_sum, q_result, q_smoothed, q_alias, q_prev, q_iter,
                   q_cell, q_out>>
    /\ UNCHANGED frame_smooth

\* lines 138-149 and 158-162: the identity fill, the call of smooth_lut, its copy
Build3dFill ==
    /\ q_pc = "averaged"
    /\ q_in.lut_size - 1 /= 0
    /\ q_sum' = fill_empty(q_sum, q_count, q_in.lut_size - 1)
    /\ q_result' = q_sum'
    /\ q_pc' = "iterate"
    /\ UNCHANGED <<q_in, q_count, q_smoothed, q_alias, q_prev, q_iter, q_cell, q_out,
                   q_exc>>
    /\ UNCHANGED frame_smooth

\* lines 164-165: an iteration begins with smoothed = result.copy()
SmoothBegin ==
    /\ q_pc = "iterate"
    /\ q_iter < ITERATIONS
    /\ q_iter' = q_iter + 1
    /\ q_smoothed' = q_result
    /\ q_alias' = FALSE
    /\ q_prev' = q_result
    /\ q_cell' = <<0, 0, 0>>
    /\ q_pc' = "cells"
    /\ UNCHANGED <<q_in, q_count, q_sum, q_result, q_out, q_exc>>
    /\ UNCHANGED frame_smooth

\* lines 168-181 for one cell: the skip or the average written to smoothed,
\* and after the last b of a row the assignment result = smoothed
SmoothCell ==
    /\ q_pc = "cells"
    /\ q_cell[1] < q_in.lut_size
    /\ q_smoothed' =
         IF well_sampled(q_count, q_cell) THEN q_smoothed
         ELSE [q_smoothed EXCEPT
                 ![q_cell] = cell_average(IF q_alias THEN q_smoothed ELSE q_result,
                                          q_cell, q_in.lut_size)]
    /\ q_alias' = (q_alias \/ q_cell[3] = q_in.lut_size - 1)
    /\ q_result' = IF q_alias' THEN q_smoothed' ELSE q_result
    /\ q_cell' = cell_after(q_cell, q_in.lut_size)
    /\ UNCHANGED <<q_pc, q_in, q_count, q_sum, q_prev, q_iter, q_out, q_exc>>
    /\ UNCHANGED frame_smooth

\* the loops over the cells are over
SmoothEnd ==
    /\ q_pc = "cells"
    /\ q_cell[1] = q_in.lut_size
    /\ q_pc' = "iterate"
    /\ UNCHANGED <<q_in, q_count, q_sum, q_result, q_smoothed, q_alias, q_prev, q_iter,
                   q_cell, q_out, q_exc>>
    /\ UNCHANGED frame_smooth

\* line 183
SmoothReturn ==
    /\ q_pc = "iterate"
    /\ q_iter = ITERATIONS
    /\ q_out' = q_result
    /\ q_pc' = "returned"
    /\ UNCHANGED <<q_in, q_count, q_sum, q_result, q_smoothed, q_alias, q_prev, q_iter,
                   q_cell, q_exc>>
    /\ UNCHANGED frame_smooth

NextSmooth ==
    \/ Build3dAccumulate \/ Build3dRaise \/ Build3dFill
    \/ SmoothBegin \/ SmoothCell \/ SmoothEnd \/ SmoothReturn

SpecSmooth == InitSmooth /\ [][NextSmooth]_vars

\* ------------------------------------------------------------------
\* SpecIdentity: build_lut (lines 264-370) on samples whose target row equals
\* their source row.  np.linalg.lstsq returns the least-squares solution of
\* minimum norm: zero when there is no row or when every row is black (the
\* target is then zero), and the one exact solution when the samples make the
\* 35 feature columns linearly independent.  All residuals are then zero, so
\* no clipping round removes a sample.

IdentitySamples == {"none", "black", "spread"}
IdentityInputs == [lut_size : 1..MaxLutSize, samples : IdentitySamples]

\* mutant of M_exact: the coefficients of L*r and L*g exchanged
M_exact_swapped ==
    [M_identity EXCEPT ![1] = <<Rat(0, 1), Rat(0, 1), Rat(-1, EPS_DEN)>>,
                       ![8] = M_identity[9], ![9] = M_identity[8]]

\* the coefficients with X @ M = rgb for every row: R = 3*L*r, G = 3*L*g,
\* B = 3*L - 3*L*r - 3*L*g - eps, L and the chromaticities being those of
\* rgb_to_lrg (S = R + G + B + eps)
M_exact == [M_identity EXCEPT ![1] = <<Rat(0, 1), Rat(0, 1), Rat(-1, EPS_DEN)>>]

\* lines 293 and 336 on such samples
identity_fit(samples) == IF samples = "spread" THEN M_exact ELSE M_zero

InitIdentity ==
    /\ i_in \in IdentityInputs
    /\ IdentityIdle("start")
    /\ args = << >>
    /\ BuildIdle("idle")
    /\ p_in = << >>
    /\ PolyIdle("idle")
    /\ r_in = << >>
    /\ RasterIdle("idle")
    /\ c_in = << >>
    /\ CubeIdle("idle")
    /\ h_in = << >>
    /\ CoverageIdle("idle")
    /\ m_in = << >>
    /\ MainIdle("idle")
    /\ s_in = << >>
    /\ StrideIdle("idle")
    /\ l_in = << >>
    /\ LoadIdle("idle")
    /\ d_in = << >>
    /\ DirIdle("idle")
    /\ q_in = << >>
    /\ SmoothIdle("idle")

\* lines 273-351: subsampling, the clipping rounds, the final fit, the empty lut
IdentityFit ==
    /\ i_pc = "start"
    /\ i_M' = identity_fit(i_in.samples)
    /\ i_lut' = [node \in Nodes(i_in.lut_size) |-> [c \in 1..3 |-> Rat(0, 1)]]
    /\ i_node' = <<0, 0, 0>>
    /\ i_pc' = "raster"
    /\ UNCHANGED <<i_in, i_exc>>
    /\ UNCHANGED frame_identity

\* lines 352-361: one node
IdentityNode ==
    /\ i_pc = "raster"
    /\ i_in.lut_size - 1 /= 0
    /\ i_lut' = [i_lut EXCEPT ![i_node] = node_value(i_M, i_node, i_in.lut_size)]
    /\ i_node' = next_node(i_node, i_in.lut_size)
    /\ i_pc' = IF i_node' = << >> THEN "done" ELSE "raster"
    /\ UNCHANGED <<i_in, i_M, i_exc>>
    /\ UNCHANGED frame_identity

\* line 355 with lut_size = 1
IdentityRaise ==
    /\ i_pc = "raster"
    /\ i_in.lut_size - 1 = 0
    /\ i_exc' = "ZeroDivisionError"
    /\ i_pc' = "raised"
    /\ UNCHANGED <<i_in, i_M, i_node, i_lut>>
    /\ UNCHANGED frame_identity

NextIdentity == IdentityFit \/ IdentityNode \/ IdentityRaise

SpecIdentity == InitIdentity /\ [][NextIdentity]_vars

\* =================================================================== claims
\* Helpers of the claims, stated without the model's operators.

\* max(100, p * N_initial) with p * N_initial truncated to a whole count
FloorCount == IF (n_initial * args.min_survivor_pct) \div 100 > 100
              THEN (n_initial * args.min_survivor_pct) \div 100
              ELSE 100

\* a round has run to its end (committed or floor-hit) and its residuals stand
RoundDone == clip_round >= 1 /\ pc \in {"loop", "final", "raster", "done"}

\* x > k * sigma for n samples whose deviations from their mean, scaled by n,
\* have the sum of squares DevSq:  4 x^2 n^3 > k2^2 * DevSq  (k = k2 / 2 >= 0)
ExceedsThreshold(x, k2, cnt, DevSq) ==
    IF k2 >= 0
    THEN 4 * x * x * cnt * cnt * cnt > k2 * k2 * DevSq
    ELSE x > 0 \/ DevSq > 0

\* sum over S of (n * x_j - S1)^2
DevSqOf(res, S, cnt, S1, ni) ==
    SumTo([j \in 0..(ni - 1) |-> (cnt * res[j] - S1) * (cnt * res[j] - S1)], S, ni)

\* The samples of indices whose residual is not above sigma_clip * sigma, sigma
\* being the root mean square deviation of the residuals of indices from their mean.
WithinThreshold ==
    LET cnt == Cardinality(indices)
        DevSq == DevSqOf(residuals, indices, cnt,
                         SumTo(residuals, indices, n_initial), n_initial)
    IN  {i \in indices : ~ExceedsThreshold(residuals[i], args.sigma_clip2, cnt, DevSq)}

C2_FloorKeepsBest ==
    (/\ RoundDone
     /\ Cardinality(WithinThreshold) < FloorCount
     /\ Cardinality(indices) >= FloorCount)
    => /\ Cardinality(mask) = FloorCount
       /\ mask \subseteq indices
       /\ \A i \in mask : \A j \in indices \ mask : residuals[i] <= residuals[j]
       /\ pc \in {"final", "raster", "done"}
       /\ n_fits = clip_round + (IF pc = "final" THEN 0 ELSE 1)

C2_Witness ==
    /\ pc = "done"
    /\ clip_round = 2
    /\ Cardinality(WithinThreshold) < FloorCount
    /\ Cardinality(indices) > FloorCount
    /\ Cardinality(mask) = FloorCount
    /\ \E i \in mask : \E j \in indices \ mask : residuals[i] < residuals[j]
    /\ \E i \in mask : \E j \in indices \ mask : residuals[i] = residuals[j]

\* C3: at most clip_rounds rounds run; the loop is left by the round limit or by
\* the floor branch; either way exactly one more fit is made, on the final mask,
\* and the LUT is rasterized from that fit, never from a fit made inside the loop.
C3_FinalFitAfterLoop ==
    /\ clip_round <= args.clip_rounds
    /\ pc \in {"final", "raster", "done"} => (floor_hit \/ clip_round = args.clip_rounds)
    /\ pc \in {"raster", "done"} =>
         /\ n_fits = clip_round + 1
         /\ M.fit = n_fits
         /\ M.rows = mask
    /\ pc = "done" => (lut.M = M /\ lut.M.fit > clip_round)

C3_Witness ==
    /\ pc = "done"
    /\ ~floor_hit
    /\ clip_round = 2
    /\ mask # indices
    /\ lut.M.fit = 3
    /\ lut.M.rows = mask

\* C4: when the subsampled set is smaller than the floor count, no sample is ever
\* removed from the mask, clipping stops with the first round, and the final fit
\* is made on every subsampled sample.
C4_TinySetKeepsAll ==
    (pc # "start" /\ n_initial < FloorCount) =>
        /\ mask = 0..(n_initial - 1)
        /\ clip_round <= 1
        /\ pc \in {"raster", "done"} => M.rows = 0..(n_initial - 1)

C4_Witness ==
    /\ pc = "done"
    /\ n_initial < FloorCount
    /\ n_initial > 0
    /\ floor_hit
    /\ \E i \in mask : i \notin WithinThreshold
    /\ M.rows = 0..(n_initial - 1)

\* C5: sigma is taken over the residuals of the current inliers only, the
\* threshold is k * sigma, and a round commits exactly when enough current
\* inliers are at or below it, removing exactly those strictly above it.
C5_ClipAgainstInlierSigma ==
    RoundDone =>
        /\ Cardinality(WithinThreshold) >= min_survivors => ~floor_hit
        /\ ~floor_hit => mask = WithinThreshold

\* a committed second round in which a sample sits exactly on the threshold
C5_Witness ==
    /\ pc = "loop"
    /\ clip_round = 2
    /\ ~floor_hit
    /\ indices # 0..(n_initial - 1)
    /\ mask = WithinThreshold
    /\ \E i \in mask :
         /\ residuals[i] > 0
         /\ LET cnt == Cardinality(indices)
                V == var_n2(residuals, indices, n_initial)
            IN  (2 * residuals[i] * cnt) * (2 * residuals[i] * cnt)
                   = args.sigma_clip2 * args.sigma_clip2 * V

\* C9 (as stated): the model matrix has 20 rows, a 3rd-order fit.
C9_ThirdOrderFit ==
    pc \in {"raster", "done"} => (M.n_terms = 20 /\ use_order = 3)

\* ------------------------------------------------- claims on the pure helpers
TermCount(d) == IF d = 2 THEN 10 ELSE IF d = 3 THEN 20 ELSE 35
Order2Exponents == << <<0, 0, 0>>, <<1, 0, 0>>, <<0, 1, 0>>, <<0, 0, 1>>, <<2, 0, 0>>,
                      <<0, 2, 0>>, <<0, 0, 2>>, <<1, 1, 0>>, <<1, 0, 1>>, <<0, 1, 1>> >>
Degree(e) == e[1] + e[2] + e[3]
Monomials(d) == {e \in (0..d) \X (0..d) \X (0..d) : Degree(e) <= d}
RECURSIVE Pow(_, _)
Pow(x, k) == IF k = 0 THEN 1 ELSE x * Pow(x, k - 1)
\* the value of the monomial with exponents e at the probe point of the input
ValueAt(e, in) == Pow(in.probe[1], e[1]) * Pow(in.probe[2], e[2]) * Pow(in.probe[3], e[3])
\* the features of the input at a lower order, from each expander
LowerSingle(d) == expand_poly_single(SymL(p_in), Symr(p_in), Symg(p_in), d)
LowerBatched(d) == expand_poly(<< <<SymL(p_in), Symr(p_in), Symg(p_in)>> >>, d)[1]

\* C6: orders 2, 3, 4 give 10, 20, 35 terms; the first term is the constant 1;
\* the first ten terms are [1, L, r, g, L^2, r^2, g^2, Lr, Lg, rg]; the terms of a
\* lower order are a prefix of those of a higher order (both expanders).
C6_TermCountsAndPrefix ==
    p_pc = "done" =>
        \A f \in {p_feat_s, p_feat_b[1]} :
            /\ Len(f) = TermCount(p_in.order)
            /\ f[1].e = <<0, 0, 0>> /\ f[1].v = 1
            /\ [t \in 1..10 |-> f[t].e] = Order2Exponents
            /\ \A d \in 2..(p_in.order - 1) :
                 /\ SubSeq(p_feat_s, 1, TermCount(d)) = LowerSingle(d)
                 /\ SubSeq(p_feat_b[1], 1, TermCount(d)) = LowerBatched(d)

C6_Witness ==
    /\ p_pc = "done"
    /\ p_in.order = 3
    /\ p_in.probe = <<2, 1, 2>>
    /\ Len(p_feat_s) = 20
    /\ Len(p_feat_b[1]) = 20
    /\ SubSeq(p_feat_s, 1, 10) = LowerSingle(2)

\* C7: expand_poly on a one-row matrix and expand_poly_single on the same triple
\* give the same number of terms and the same term at every index.
C7_BatchedEqualsSingle ==
    p_pc = "done" =>
        /\ Len(p_feat_b) = 1
        /\ Len(p_feat_b[1]) = Len(p_feat_s)
        /\ \A t \in 1..Len(p_feat_s) : p_feat_b[1][t] = p_feat_s[t]

C7_Witness ==
    /\ p_pc = "done"
    /\ p_in.order = 4
    /\ p_in.probe = <<1, 2, 2>>
    /\ Len(p_feat_s) = 35
    /\ p_feat_b[1][26] = p_feat_s[26]
    /\ p_feat_s[26].e = <<1, 3, 0>>
    /\ p_feat_s[26].v = 8

\* C8: the features of order d hold every monomial of degree <= d exactly once,
\* each with the monomial's value; terms 11..20 are the degree-3 monomials and
\* terms 21..35 the degree-4 monomials (both expanders).
C8_AllMonomialsOnce ==
    p_pc = "done" =>
        \A f \in {p_feat_s, p_feat_b[1]} :
            /\ {f[t].e : t \in 1..Len(f)} = Monomials(p_in.order)
            /\ Len(f) = Cardinality(Monomials(p_in.order))
            /\ \A t \in 1..Len(f) : f[t].v = ValueAt(f[t].e, p_in)
            /\ \A t \in 11..Len(f) : Degree(f[t].e) = (IF t <= 20 THEN 3 ELSE 4)
            /\ \A t, u \in 21..Len(f) : t # u => f[t].e # f[u].e

C8_Witness ==
    /\ p_pc = "done"
    /\ p_in.order = 4
    /\ p_in.probe = <<2, 2, 1>>
    /\ Cardinality({p_feat_b[1][t].e : t \in 21..35}) = 15
    /\ Cardinality({p_feat_s[t].e : t \in 11..20}) = 10
    /\ p_feat_b[1][34].e = <<1, 2, 1>>

\* C10: rgb_to_lrg on a row and rgb_to_lrg_single on the same RGB give the same
\* (L, r, g), pure black included.
C10_TransformsAgree ==
    p_pc \in {"poly_batched", "poly_single", "done"} =>
        /\ Len(p_lrg_b) = 1
        /\ p_lrg_b[1] = p_lrg_s

\* pure black: L = eps/3, r = g = 0 on both paths
C10_Witness ==
    /\ p_pc = "done"
    /\ p_in.rgb = <<0, 0, 0>>
    /\ p_lrg_s = << <<1, 3 * 1000000>>, <<0, 1>>, <<0, 1>> >>
    /\ p_lrg_b[1] = p_lrg_s

\* C11: for every RGB triple in [0,1] the transform returns L = (R+G+B)/3,
\* r = R/(R+G+B+eps) and g = G/(R+G+B+eps) with eps = 1e-6, all finite, pure
\* black included.
C11_TransformFormula ==
    p_pc \in {"poly_batched", "poly_single", "done"} =>
        LET R == RGBOf(p_in)[1]
            G == RGBOf(p_in)[2]
            B == RGBOf(p_in)[3]
            Sum == RAdd(RAdd(R, G), B)
        IN  /\ p_lrg_s[1] = RDiv(Sum, Rat(3, 1))
            /\ p_lrg_s[2] = RDiv(R, RAdd(Sum, EPS))
            /\ p_lrg_s[3] = RDiv(G, RAdd(Sum, EPS))
            /\ \A c \in 1..3 : p_lrg_s[c][2] > 0

\* the value the claims expect at an RGB point: the polynomial with coefficients
\* Mx in the chromaticity of the point, clipped to [0, 1]
RECURSIVE RSumOver(_, _)
RSumOver(f, T) ==
    IF T = {} THEN Rat(0, 1)
    ELSE LET t == CHOOSE u \in T : TRUE IN RAdd(f[t], RSumOver(f, T \ {t}))

ModelAt(Mx, R, G, B) ==
    LET S == RAdd(RAdd(RAdd(R, G), B), EPS)
        L == RDiv(S, Rat(3, 1))
        cr == RDiv(R, S)
        cg == RDiv(G, S)
        exps == term_exponents(use_order)
        raw(c) ==
            LET T == {t \in DOMAIN Mx : Mx[t][c][1] /= 0}
                f == [t \in T |-> RMul(Mx[t][c],
                                       RMul(RMul(RPow(L, exps[t][1]), RPow(cr, exps[t][2])),
                                            RPow(cg, exps[t][3])))]
            IN  RSumOver(f, T)
        clipped(x) == IF x[1] * 1 < 0 THEN <<0, 1>> ELSE IF x[1] > x[2] THEN <<1, 1>> ELSE x
    IN  [c \in 1..3 |-> clipped(raw(c))]

GridHolds ==
    LET N == r_in.lut_size
    IN  /\ DOMAIN r_lut = Nodes(N)
        /\ Cardinality(DOMAIN r_lut) = N * N * N
        /\ \A node \in Nodes(N) :
              /\ r_lut[node] = ModelAt(r_in.M, Rat(node[1], N - 1), Rat(node[2], N - 1),
                                       Rat(node[3], N - 1))
              /\ \A c \in 1..3 : /\ 0 <= r_lut[node][c][1]
                                 /\ r_lut[node][c][1] <= r_lut[node][c][2]

\* C12 as stated: for every grid resolution N the rasterization yields N^3 cells,
\* each the clipped model value at (i/(N-1), j/(N-1), k/(N-1)).
C12_Original ==
    /\ r_pc /= "raised"
    /\ r_pc = "done" => GridHolds

\* C12: for every grid resolution N >= 2 the rasterized LUT has N^3 cells, the
\* cell at (i, j, k) is the final model applied to the features of the
\* chromaticity of (i/(N-1), j/(N-1), k/(N-1)), clipped componentwise to [0, 1],
\* corners included; the loop raises only for N = 1.
C12_GridFormula ==
    /\ r_pc = "raised" => r_in.lut_size = 1
    /\ (r_pc = "done" /\ r_in.lut_size >= 2) => GridHolds

\* the doubled identity on the 3-grid: the white corner clips to 1, the black
\* corner holds 2*eps in blue, a mid node on the red axis holds 2 * 1/2 = 1
C12_Witness ==
    /\ r_pc = "done"
    /\ r_in.lut_size = 3
    /\ r_in.M = M_gain
    /\ r_lut[<<2, 2, 2>>] = <<Rat(1, 1), Rat(1, 1), Rat(1, 1)>>
    /\ r_lut[<<0, 0, 0>>] = <<Rat(0, 1), Rat(0, 1), Rat(2, EPS_DEN)>>
    /\ r_lut[<<1, 0, 0>>] = <<Rat(1, 1), Rat(0, 1), Rat(2, EPS_DEN)>>

\* C13: rasterization is pure per node: a step assigns exactly one cell, one not
\* assigned before, the value being a function of that cell's index and of the
\* model alone; every other cell and the model are unchanged; when the loop is
\* done each of the N^3 cells has been assigned exactly once.
C13_PureNode ==
    [][r_pc = "loop" /\ r_pc' \in {"loop", "done"} =>
          /\ r_in' = r_in
          /\ \E cell \in Nodes(r_in.lut_size) :
                /\ r_writes[cell] = 0
                /\ r_writes'[cell] = 1
                /\ r_lut'[cell] = ModelAt(r_in.M, Rat(cell[1], r_in.lut_size - 1),
                                          Rat(cell[2], r_in.lut_size - 1),
                                          Rat(cell[3], r_in.lut_size - 1))
                /\ \A other \in Nodes(r_in.lut_size) \ {cell} :
                      /\ r_lut'[other] = r_lut[other]
                      /\ r_writes'[other] = r_writes[other]
          /\ r_pc' = "done" =>
                /\ DOMAIN r_writes' = Nodes(r_in.lut_size)
                /\ \A node \in Nodes(r_in.lut_size) : r_writes'[node] = 1]_vars

\* the inverting model on the 3-grid, finished: 27 cells, each assigned once
C13_Witness ==
    /\ r_pc = "done"
    /\ r_in.lut_size = 3
    /\ r_in.M = M_invert
    /\ Cardinality({node \in DOMAIN r_writes : r_writes[node] = 1}) = 27
    /\ r_lut[<<0, 1, 2>>] = <<Rat(1, 1), Rat(1, 2), Rat(0, 1)>>

\* the data lines of a finished file: what follows the blank line
DataLines ==
    LET first == (CHOOSE i \in 1..Len(c_file) : c_file[i].kind = "blank") + 1
    IN  SubSeq(c_file, first, Len(c_file))

\* C14: every write_cube of the repository emits N^3 data lines with R varying
\* fastest, then G, then B: the data line at 0-based position r + N*g + N*N*b
\* holds lut[r, g, b].
C14_RedFastest ==
    c_pc = "done" =>
        LET N == c_in.lut.shape
        IN  /\ Len(DataLines) = N * N * N
            /\ \A node \in Nodes(N) :
                  DataLines[node[1] + N * node[2] + N * N * node[3] + 1].val
                      = [c \in 1..3 |-> format6(c_in.lut.cell[node][c])]

\* C15: write_cube writes, in order, a TITLE line only when the title is not
\* empty, then LUT_3D_SIZE N, DOMAIN_MIN 0.0 0.0 0.0, DOMAIN_MAX 1.0 1.0 1.0, one
\* blank line, then exactly N^3 data lines of three values, N being the first
\* dimension of the array.
C15_FileLayout ==
    c_pc = "done" =>
        LET N == c_in.lut.shape
            h == IF c_in.title = "" THEN 0 ELSE 1
        IN  /\ Len(c_file) = h + 4 + N * N * N
            /\ h = 1 => c_file[1] = [kind |-> "TITLE", title |-> c_in.title]
            /\ \A i \in 1..Len(c_file) : c_file[i].kind = "TITLE" => (i = 1 /\ h = 1)
            /\ c_file[h + 1] = [kind |-> "LUT_3D_SIZE", size |-> N]
            /\ c_file[h + 2] = [kind |-> "DOMAIN_MIN", text |-> "0.0 0.0 0.0"]
            /\ c_file[h + 3] = [kind |-> "DOMAIN_MAX", text |-> "1.0 1.0 1.0"]
            /\ c_file[h + 4] = [kind |-> "blank"]
            /\ \A i \in (h + 5)..Len(c_file) :
                  /\ c_file[i].kind = "data"
                  /\ Len(c_file[i].val) = 3

\* generate_profiles.py's write_cube, no title, a 2-grid: 4 header lines, 8 data lines
C15_Witness ==
    /\ c_pc = "done"
    /\ c_in.impl = "color/generate_profiles.py"
    /\ c_in.title = ""
    /\ c_in.lut.shape = 2
    /\ Len(c_file) = 12
    /\ c_file[1].kind = "LUT_3D_SIZE"
    /\ c_file[5].kind = "data"

\* C16: when fewer samples than polynomial terms are available, zero samples
\* included, the fit fails with an insufficient-data error and no LUT is
\* produced: a call that returns a LUT had at least n_terms samples.
C16_InsufficientDataFails ==
    (pc \notin {"start"} /\ n_initial < n_terms_of(use_order)) =>
        /\ pc /= "done"
        /\ lut = NoLut

\* the rank lstsq reports for a fit is at most the number of rows it was given
RankBound(model) == Min(Cardinality(model.rows), model.n_terms)

\* C17: when the least-squares system is rank-deficient the fit does not fail
\* (a LUT is produced from the minimum-norm solution) and a warning reporting
\* the observed rank against the expected number of terms is surfaced.
C17_RankWarning ==
    (pc = "done" /\ RankBound(M) < M.n_terms) =>
        /\ lut = [M |-> M]
        /\ \E i \in 1..Len(out) : out[i].kind = "rank_warning"

\* the bins the claims expect for the palette colours, by hand
PaletteBin == << <<0, 3, 3>>, <<8, 3, 0>>, <<0, 0, 2>>, <<11, 3, 3>>, <<4, 2, 3>> >>
\* the runs of an input: <<colour, length>>
RunsOf(in) == << <<in.c1, in.k1>>, <<in.c2, in.k2>>, <<in.fill, in.total - in.k1 - in.k2>> >>
HueCount(in, hi) ==
    LET w(k) == IF PaletteBin[RunsOf(in)[k][1]][1] = hi THEN RunsOf(in)[k][2] ELSE 0
    IN  w(1) + w(2) + w(3)
SaturatedCount(in, vi) ==
    LET w(k) == IF /\ PaletteBin[RunsOf(in)[k][1]][2] >= 2
                   /\ PaletteBin[RunsOf(in)[k][1]][3] = vi
                THEN RunsOf(in)[k][2] ELSE 0
    IN  w(1) + w(2) + w(3)
Flagged(msg) == \E i \in 1..Len(h_out) : h_out[i] = msg
Times(msg) == Cardinality({i \in 1..Len(h_out) : h_out[i] = msg})

\* C20: analyze_coverage flags a hue bin exactly when its total is below 20% of
\* the uniform share of one hue bin (sample count / 12), flags the saturated
\* dark and the saturated bright region exactly when its total is below 20% of
\* the uniform share of that region (24 of the 192 cells), and returns at most
\* 12 hue messages plus one each for saturated darks, saturated brights and
\* neutrals.
C20_CoverageFlags ==
    h_pc = "returned" =>
        LET n == h_in.total
        IN  /\ \A hi \in 0..11 :
                  Flagged([kind |-> "hue", name |-> HUE_NAMES[hi + 1]])
                      <=> 5 * 12 * HueCount(h_in, hi) < n
            /\ Flagged([kind |-> "saturated dark tones"])
                  <=> 5 * 8 * SaturatedCount(h_in, 0) < n
            /\ Flagged([kind |-> "saturated bright tones"])
                  <=> 5 * 8 * SaturatedCount(h_in, 3) < n
            /\ Len(h_out) <= 12 + 3
            /\ \A i \in 1..Len(h_out) :
                  /\ h_out[i].kind \in {"hue", "saturated dark tones",
                                        "saturated bright tones", "neutral/grayscale tones"}
                  /\ Times(h_out[i]) = 1

\* 120 pixels: 2 rose (exactly 20% of 120/12, not flagged), 1 pastel green
\* (flagged), 117 gray; saturated brights 3 = 20% of 120/8 (not flagged),
\* saturated darks 0 (flagged)
C20_Witness ==
    /\ h_pc = "returned"
    /\ h_in = [fill |-> 3, c1 |-> 4, k1 |-> 2, c2 |-> 5, k2 |-> 1, total |-> 120]
    /\ ~Flagged([kind |-> "hue", name |-> "Rose"])
    /\ Flagged([kind |-> "hue", name |-> "Green"])
    /\ ~Flagged([kind |-> "saturated bright tones"])
    /\ Flagged([kind |-> "saturated dark tones"])
    /\ Len(h_out) = 11

HasEntry(g) == \E i \in 1..Len(m_results) : m_results[i].key = GroupKeys[g]

\* C18: in main a failure while processing one (model, style) group, be it in
\* image loading, coverage analysis, fitting or writing, does not halt the
\* remaining groups: when main has ended without --dry-run, every group other
\* than one that failed has its own entry in results, and a group that failed
\* is named in what was printed.
C18_GroupFailureIsolated ==
    (m_pc \in {"done", "crashed"} /\ ~m_in.dry_run) =>
        \A g \in DOMAIN GroupKeys :
            \/ HasEntry(g)
            \/ /\ m_pc = "crashed"
               /\ g = m_gi
               /\ \E i \in 1..Len(m_out) :
                     m_out[i] = [kind |-> "BUILD", key |-> GroupKeys[g]]

\* C19: analyze_coverage never raises, whatever the sample set, and never blocks
\* the LUT construction: from a group with loaded pairs main always goes on to
\* build_lut, with the sample arrays unchanged.
C19_CoverageNeverBlocks ==
    [][(m_pc = "loaded" /\ m_src /= << >>) =>
          /\ m_pc' = "build"
          /\ m_exc' = ""
          /\ m_src' = m_src]_vars

\* C21 as stated: the fitting set never holds more than the budget of
\* 1,000,000 samples, whatever n is.
C21_Original ==
    s_pc = "done" => s_src.len <= SUBSAMPLE_BUDGET

\* C21, amended: src_sub and tgt_sub are the same slice (rows 0, step,
\* 2*step, ... of n rows, every such row below n and no further one left out),
\* an input within the budget is kept whole, and the fitting set holds fewer
\* than twice the budget.
C21_StrideBelowTwiceBudget ==
    s_pc = "done" =>
        /\ s_step >= 1
        /\ s_src = s_tgt
        /\ s_src.step = s_step
        /\ s_src.len > 0 => slice_row(s_src, s_src.len - 1) < s_in
        /\ slice_row(s_src, s_src.len) >= s_in
        /\ s_in <= SUBSAMPLE_BUDGET => s_src.len = s_in
        /\ s_src.len < 2 * SUBSAMPLE_BUDGET

\* one row short of twice the budget: the step is 1 and every row is kept
C21_Witness ==
    /\ s_pc = "done"
    /\ s_in = 2 * SUBSAMPLE_BUDGET - 1
    /\ s_step = 1
    /\ s_src.len = 2 * SUBSAMPLE_BUDGET - 1

\* the index in the crop of the k-th row whose source brightness exceeds 0.03
KthBright(src_flat, k) ==
    LET bright == {i \in DOMAIN src_flat :
                     RLess(<<3, 100>>, RAdd(RAdd(src_flat[i][1], src_flat[i][2]),
                                            src_flat[i][3]))}
    IN  CHOOSE i \in bright : Cardinality({j \in bright : j <= i}) = k

BrightCount(src_flat) ==
    Cardinality({i \in DOMAIN src_flat :
                   RLess(<<3, 100>>, RAdd(RAdd(src_flat[i][1], src_flat[i][2]),
                                          src_flat[i][3]))})

RECURSIVE TotalLen(_)
TotalLen(arrays) == IF arrays = << >> THEN 0 ELSE Len(Head(arrays)) + TotalLen(Tail(arrays))

\* C22: the two arrays load_pair_pixels returns have the same length and hold,
\* in order, exactly the rows of the two crops at the positions where the
\* source crop has R+G+B > 0.03; the collected lists, the stacked arrays and the
\* subsampled arrays have equal lengths too.
C22_MatchedPairs ==
    /\ (l_pair /= << >> /\ l_pair.pair) =>
         /\ Len(l_flat.src) = Len(l_flat.tgt)
         /\ Len(l_pair.src) = BrightCount(l_flat.src)
         /\ Len(l_pair.tgt) = Len(l_pair.src)
         /\ \A k \in 1..Len(l_pair.src) :
              /\ l_pair.src[k] = l_flat.src[KthBright(l_flat.src, k)]
              /\ l_pair.tgt[k] = l_flat.tgt[KthBright(l_flat.src, k)]
    /\ Len(l_all_src) = Len(l_all_tgt)
    /\ \A f \in DOMAIN l_all_src : Len(l_all_src[f]) = Len(l_all_tgt[f])
    /\ l_combined /= << >> =>
         /\ Len(l_combined.src) = Len(l_combined.tgt)
         /\ Len(l_combined.src) = TotalLen(l_all_src)
    /\ l_sub /= << >> => Len(l_sub.src) = Len(l_sub.tgt)

\* a crop of four pixels of which some but not all are bright enough, stacked
\* after another file and subsampled
C22_Witness ==
    /\ l_pc = "subsampled"
    /\ Len(l_all_src) = 2
    /\ Len(l_flat.src) = 4
    /\ Len(l_pair.src) \in 1..3
    /\ Len(l_sub.src) > Len(l_pair.src)

C27_MaskShrinks ==
    [][pc /= "start" =>
         (mask' \subseteq mask /\ Cardinality(mask') <= Cardinality(mask))]_vars

\* a second round that removed samples after a first round that removed some
C27_Witness ==
    /\ clip_round = 2
    /\ pc \in {"loop", "final"}
    /\ Cardinality(indices) < n_initial
    /\ Cardinality(mask) < Cardinality(indices)

\* the total of the whole histogram, hue slice by hue slice
RECURSIVE SliceTotals(_)
SliceTotals(hi) ==
    IF hi = H_BINS THEN 0
    ELSE hist_sum(h_hist, {c \in Cells : c[1] = hi}) + SliceTotals(hi + 1)
HistTotal == SliceTotals(0)

\* C28: once the histogram loop has run, every sampled pixel has its three bin
\* indices inside 0..11, 0..3, 0..3, a pixel whose saturation is 1.0 (its
\* smallest channel is 0) or whose value is 1.0 (its largest channel is 1) is
\* in the last bin of that axis, each cell counts the pixels with its indices,
\* and the histogram's total is the number of sampled pixels.
C28_EveryPixelCounted ==
    h_pc \in {"check", "returned"} =>
        LET sample == coverage_sample(pixels_of(h_in))
        IN  /\ Len(h_idx) = Len(sample)
            /\ \A i \in DOMAIN h_idx :
                 /\ h_idx[i] \in Cells
                 /\ RMax(RMax(sample[i][1], sample[i][2]), sample[i][3]) = Rat(1, 1)
                      => h_idx[i][3] = V_BINS - 1
                 /\ (/\ RMin(RMin(sample[i][1], sample[i][2]), sample[i][3]) = Rat(0, 1)
                     /\ RMax(RMax(sample[i][1], sample[i][2]), sample[i][3]) /= Rat(0, 1))
                      => h_idx[i][2] = S_BINS - 1
            /\ \A cell \in Cells :
                 h_hist[cell] = Cardinality({i \in DOMAIN h_idx : h_idx[i] = cell})
            /\ HistTotal = Len(sample)

\* 120 pixels, three of them pure red (saturation 1.0 and value 1.0)
C28_Witness ==
    /\ h_pc = "check"
    /\ h_in.total = 120
    /\ h_in.c1 = 1
    /\ h_in.k1 = 3
    /\ h_in.c2 /= 1
    /\ h_in.fill = 3
    /\ h_hist[<<0, 3, 3>>] = 3
    /\ HistTotal = 120

C26_AllPairsProcessed ==
    d_pc \in {"done", "crashed"} =>
        \A i \in DOMAIN d_in.files :
            (/\ d_in.files[i].present
             /\ d_in.files[i].jpg
             /\ out_name(d_in.files, i) \notin d_in.cubes)
                => \E k \in DOMAIN d_passed : d_passed[k] = i

\* whether a source pixel falls into cell c of a grid with the given scale:
\* on each axis c <= x * scale < c + 1, or x * scale >= scale at the last node
InCell(src, c, scale) ==
    \A ch \in 1..3 :
        \/ c[ch] * src[ch][2] <= src[ch][1] * scale
             /\ src[ch][1] * scale < (c[ch] + 1) * src[ch][2]
        \/ c[ch] = scale /\ src[ch][1] * scale >= scale * src[ch][2]

\* the number of pixels in a cell and the sum of their targets
PixelsIn(c) ==
    LET runs == runs_of(q_in)
        w(k) == IF InCell(runs[k].src, c, q_in.lut_size - 1) THEN runs[k].k ELSE 0
    IN  w(1) + w(2)
TargetsIn(c) ==
    LET runs == runs_of(q_in)
        t(k) == IF InCell(runs[k].src, c, q_in.lut_size - 1)
                THEN VScale(runs[k].tgt, runs[k].k) ELSE VZero
    IN  VSum(t(1), t(2))
LargestCount ==
    CHOOSE top \in {PixelsIn(c) : c \in grid(q_in.lut_size)} :
        \A c \in grid(q_in.lut_size) : PixelsIn(c) <= top

\* C29: after the fill, every pixel lies in exactly one cell of the grid, a
\* cell with pixels holds the mean of their targets and a cell without holds
\* the identity value of its index; from then on a cell whose count is above 8%
\* of the largest count keeps that value in result, in smoothed and in the
\* array smooth_lut returns.
C29_MeanIdentityKept ==
    q_pc \in {"iterate", "cells", "returned"} =>
        LET size == q_in.lut_size
            scale == size - 1
        IN  /\ \A k \in 1..2 :
                 Cardinality({c \in grid(size) : InCell(runs_of(q_in)[k].src, c, scale)}) = 1
            /\ \A c \in grid(size) :
                 /\ q_count[c] = PixelsIn(c)
                 /\ PixelsIn(c) > 0 => q_sum[c] = VOver(TargetsIn(c), PixelsIn(c))
                 /\ PixelsIn(c) = 0 =>
                      q_sum[c] = <<Rat(c[1], scale), Rat(c[2], scale), Rat(c[3], scale)>>
                 /\ 100 * PixelsIn(c) > 8 * LargestCount =>
                      /\ q_result[c] = q_sum[c]
                      /\ q_smoothed /= << >> => q_smoothed[c] = q_sum[c]
                      /\ q_pc = "returned" => q_out[c] = q_sum[c]

\* 15 pixels and 1 pixel with different targets fall into cell <<1, 0, 1>>:
\* it holds their mean after three iterations, while an empty cell was smoothed
C29_Witness ==
    /\ q_pc = "returned"
    /\ q_in.k1 = 15 /\ q_in.k2 = 1
    /\ q_in.tgt1 /= q_in.tgt2
    /\ q_count[<<1, 0, 1>>] = 16
    /\ q_out[<<1, 0, 1>>] = VOver(VSum(VScale(q_in.tgt1, 15), q_in.tgt2), 16)
    /\ q_out[<<0, 0, 0>>] /= q_sum[<<0, 0, 0>>]

\* whether cell c comes before cell d in the order of the loops
Earlier(c, d) ==
    \/ c[1] < d[1]
    \/ c[1] = d[1] /\ c[2] < d[2]
    \/ c[1] = d[1] /\ c[2] = d[2] /\ c[3] < d[3]

\* C30: during an iteration, every cell already smoothed holds the average of
\* itself and its in-range neighbours as they were when the iteration began.
C30_StartOfIterationValues ==
    q_pc = "cells" =>
        \A c \in grid(q_in.lut_size) :
            (Earlier(c, q_cell) /\ ~(100 * PixelsIn(c) > 8 * LargestCount)) =>
                q_smoothed[c] = cell_average(q_prev, c, q_in.lut_size)

\* whether every node of the LUT is within 1e-3 of its coordinate
WithinTolerance(x, y) ==
    /\ (x[1] * y[2] - y[1] * x[2]) * 1000 <= x[2] * y[2]
    /\ (y[1] * x[2] - x[1] * y[2]) * 1000 <= x[2] * y[2]
IdentityLut ==
    \A node \in Nodes(i_in.lut_size) : \A c \in 1..3 :
        WithinTolerance(i_lut[node][c], Rat(node[c], i_in.lut_size - 1))

====
